---- MODULE Spec2Model ----
(***************************************************************************)
(* Website auditor: the run-audit request handler (rate-limit gate, URL    *)
(* validation, SSRF check, analyzer orchestration, score assembly, save to *)
(* data/audits.json) and the fixed-window rate limiters of the four API    *)
(* routes.                                                                 *)
(*                                                                         *)
(* The handler is asynchronous: one action per stretch of code between two *)
(* awaits.  DNS answers, fetch results, analyzer outcomes and the clock    *)
(* are the environment and are drawn from the bounded sets defined below.  *)
(***************************************************************************)
EXTENDS Integers, Sequences, FiniteSets, TLC

\* ------------------------------------------------------------------------
\* Program constants
\* ------------------------------------------------------------------------
RATE_LIMIT_WINDOW_MS == 60000
RATE_LIMIT_MAX == 10
CHAT_RATE_WINDOW_MS == 60000
CHAT_RATE_MAX == 12
PDF_RATE_WINDOW_MS == 60000
PDF_RATE_MAX == 8
CHART_RATE_WINDOW_MS == 60000
CHART_RATE_MAX == 20
MAX_URL_LENGTH == 2000
SECURITY_PENALTY == 8

\* ------------------------------------------------------------------------
\* Bounds of the model
\* ------------------------------------------------------------------------
MaxAddrs == 2      \* addresses in one DNS answer
MaxOver == 1       \* requests followed past a limiter's maximum
MaxAudits == 1     \* audits saved in one run of the handler model
MaxKeys == 7       \* keys of an evidence map handed to answerQuery
MaxRecords == 2    \* records in data/audits.json in the store model
MaxSaves == 2      \* saveAudit calls of lib/storage.js
MaxAnchors == 3    \* <a href> elements of the audited page

NoValue == "undefined"

\* ------------------------------------------------------------------------
\* IP addresses as ipaddr.js sees them: an address has a kind and a range();
\* an IPv4-mapped IPv6 address (range "ipv4Mapped") wraps an IPv4 address,
\* whose own range is kept in v4range.
\* ------------------------------------------------------------------------
IPv4Ranges == {"unicast", "private", "loopback", "linkLocal", "carrierGradeNat"}
IPv6Ranges == {"unicast", "uniqueLocal", "linkLocal", "loopback"}

Addrs ==
    [kind : {"ipv4"}, range : IPv4Ranges, v4range : {NoValue}]
    \cup [kind : {"ipv6"}, range : IPv6Ranges, v4range : {NoValue}]
    \cup [kind : {"ipv6"}, range : {"ipv4Mapped"}, v4range : IPv4Ranges]

\* parsed.toIPv4Address() followed by ipaddr.parse(v4)
toIPv4Address(a) == [kind |-> "ipv4", range |-> a.v4range, v4range |-> NoValue]

isIPv4MappedAddress(a) == a.kind = "ipv6" /\ a.range = "ipv4Mapped"

DisallowedRanges == {"private", "loopback", "linkLocal", "carrierGradeNat", "uniqueLocal"}
MappedDisallowedRanges == {"private", "loopback"}

\* the callback of addrs.some(...)
addrIsPrivate(a) ==
    IF a.range \in DisallowedRanges THEN TRUE
    ELSE IF isIPv4MappedAddress(a)
         THEN toIPv4Address(a).range \in MappedDisallowedRanges
         ELSE FALSE

\* dns.lookup(hostname, {all: true}) either rejects or answers with a
\* non-empty list of addresses.
DnsResults ==
    [state : {"answered"}, addrs : UNION { [1..n -> Addrs] : n \in 1..MaxAddrs }]
    \cup {[state |-> "failed", addrs |-> << >>]}

\* what the handler model keeps of a lookup: its state and the set of the
\* addresses of its answer.  NoDns: no lookup was made.
NoDns == [state |-> "none", addrs |-> {}]
Resolved(ans) == [state |-> ans.state, addrs |-> {ans.addrs[i] : i \in 1..Len(ans.addrs)}]

isPrivateAddressFirstOnly(ans) ==
    IF ans.state # "answered" THEN FALSE ELSE addrIsPrivate(ans.addrs[1])

\* isPrivateAddress(hostname), given what the lookup of the hostname yields;
\* a rejected lookup is caught and gives false
isPrivateAddress(ans) ==
    IF ans.state # "answered" THEN FALSE
    ELSE \E i \in 1..Len(ans.addrs) : addrIsPrivate(ans.addrs[i])

\* ------------------------------------------------------------------------
\* Request bodies and URL texts.  A URL string is described by its raw
\* length, the amount of surrounding whitespace that trim() removes, whether
\* new URL() accepts it, and its protocol.
\* ------------------------------------------------------------------------
UrlValues ==
    { [t |-> "string", raw |-> 0,    ws |-> 0, syntax |-> "bad", proto |-> NoValue],
      [t |-> "string", raw |-> 3,    ws |-> 3, syntax |-> "bad", proto |-> NoValue],
      [t |-> "string", raw |-> 12,   ws |-> 0, syntax |-> "bad", proto |-> NoValue],
      [t |-> "string", raw |-> 2001, ws |-> 0, syntax |-> "ok",  proto |-> "https:"],
      [t |-> "string", raw |-> 2001, ws |-> 0, syntax |-> "bad", proto |-> NoValue],
      [t |-> "string", raw |-> 24,   ws |-> 0, syntax |-> "ok",  proto |-> "ftp:"],
      [t |-> "string", raw |-> 24,   ws |-> 0, syntax |-> "ok",  proto |-> "http:"],
      [t |-> "string", raw |-> 2001, ws |-> 1, syntax |-> "ok",  proto |-> "https:"],
      [t |-> "undefined", raw |-> 0, ws |-> 0, syntax |-> "bad", proto |-> NoValue],
      [t |-> "number",    raw |-> 0, ws |-> 0, syntax |-> "bad", proto |-> NoValue],
      [t |-> "number",    raw |-> 7, ws |-> 0, syntax |-> "bad", proto |-> NoValue],
      [t |-> "object",    raw |-> 1, ws |-> 0, syntax |-> "bad", proto |-> NoValue] }

\* JavaScript truthiness of body.url: "", 0 and undefined are falsy
Truthy(v) ==
    CASE v.t = "undefined" -> FALSE
      [] v.t = "number" -> v.raw # 0
      [] v.t = "string" -> v.raw > 0
      [] OTHER -> TRUE

EmptyString == [t |-> "string", raw |-> 0, ws |-> 0, syntax |-> "bad", proto |-> NoValue]

\* String.prototype.trim
Trim(s) == [s EXCEPT !.raw = s.raw - s.ws, !.ws = 0]

validateUrlText(u) ==
    IF ~Truthy(u) \/ u.t # "string" THEN "Missing url"
    ELSE IF u.raw > MAX_URL_LENGTH THEN "URL too long"
    ELSE IF u.syntax # "ok" THEN "Invalid URL"
    ELSE IF u.proto \notin {"http:", "https:"} THEN "URL must be http or https"
    ELSE "null"

\* req.body as the framework hands it over: a string that JSON.parse rejects,
\* the value null, or an object with (or without) a url property
Bodies ==
    {[kind |-> "unparseable", url |-> EmptyString], [kind |-> "null", url |-> EmptyString]}
    \cup [kind : {"object"}, url : UrlValues]

\* a request without a body
NoBody == [kind |-> "none", url |-> EmptyString]

\* ------------------------------------------------------------------------
\* Fixed-window limiter of run-audit.  A record of the Map is
\* [count, windowStart]; NoRec stands for a missing key.
\* ------------------------------------------------------------------------
NoRec == [count |-> 0, windowStart |-> -1]

Ceil1000(ms) == (ms + 999) \div 1000

\* rateLimit(ip) of run-audit.js: the new record of the Map and the result.
\* rec.count++ changes the object held by the Map, also on a denial.
rateLimitGE(rec, t) ==
    IF rec = NoRec
    THEN [rec |-> [count |-> 1, windowStart |-> t], allowed |-> TRUE, retryAfterMs |-> 0]
    ELSE IF t - rec.windowStart >= RATE_LIMIT_WINDOW_MS
    THEN [rec |-> [count |-> 1, windowStart |-> t], allowed |-> TRUE, retryAfterMs |-> 0]
    ELSE IF rec.count + 1 > RATE_LIMIT_MAX
    THEN [rec |-> [rec EXCEPT !.count = @ + 1], allowed |-> FALSE,
          retryAfterMs |-> rec.windowStart + RATE_LIMIT_WINDOW_MS - t]
    ELSE [rec |-> [rec EXCEPT !.count = @ + 1], allowed |-> TRUE, retryAfterMs |-> 0]

rateLimit(rec, t) ==
    IF rec = NoRec
    THEN [rec |-> [count |-> 1, windowStart |-> t], allowed |-> TRUE, retryAfterMs |-> 0]
    ELSE IF t - rec.windowStart > RATE_LIMIT_WINDOW_MS
    THEN [rec |-> [count |-> 1, windowStart |-> t], allowed |-> TRUE, retryAfterMs |-> 0]
    ELSE IF rec.count + 1 > RATE_LIMIT_MAX
    THEN [rec |-> [rec EXCEPT !.count = @ + 1], allowed |-> FALSE,
          retryAfterMs |-> rec.windowStart + RATE_LIMIT_WINDOW_MS - t]
    ELSE [rec |-> [rec EXCEPT !.count = @ + 1], allowed |-> TRUE, retryAfterMs |-> 0]

\* String(Math.ceil(rl.retryAfter || 60)): a remaining time of 0 is falsy
retryAfterHeader(rl) ==
    IF rl.retryAfterMs = 0 THEN 60 ELSE Ceil1000(rl.retryAfterMs)

\* ------------------------------------------------------------------------
\* JavaScript values of the analyzers' results
\* ------------------------------------------------------------------------
JUndef == [t |-> "undefined", n |-> 0]

\* x || 0 for a number, null or undefined
OrZero(v) == IF v.t = "number" /\ v.n # 0 THEN v.n ELSE 0

\* Math.round(s / 2) for an integer s >= 0: halves round up
RoundHalf(s) == (s + 1) \div 2

Max(a, b) == IF a >= b THEN a ELSE b
Min(a, b) == IF a <= b THEN a ELSE b

\* ------------------------------------------------------------------------
\* lib/seo.js: analyzeSEO.  The environment of one call: what the main page
\* fetch yields, the statuses of /sitemap.xml and /robots.txt (0: the fetch
\* threw), and how many of the internal links are broken.
\* ------------------------------------------------------------------------
RequiredHeaders == {"strict-transport-security", "content-security-policy",
                    "x-frame-options", "referrer-policy"}

SeoWorlds ==
    LET GoodPage == [title |-> TRUE, metaDescription |-> TRUE, canonical |-> TRUE,
                     h1count |-> 1, names |-> RequiredHeaders, libs |-> FALSE, links |-> 2]
        BarePage == [title |-> FALSE, metaDescription |-> FALSE, canonical |-> FALSE,
                     h1count |-> 0, names |-> {"access-control-allow-origin:*"},
                     libs |-> TRUE, links |-> 1]
    IN [pageThrows : {TRUE}, page : {BarePage}, sitemap : {200}, robots : {200}, broken : {0}]
       \cup [pageThrows : {FALSE}, page : {GoodPage}, sitemap : {200, 0}, robots : {200},
             broken : {0}]
       \cup [pageThrows : {FALSE}, page : {BarePage}, sitemap : {404}, robots : {404, 0},
             broken : {1}]

Cond(b, x) == IF b THEN <<x>> ELSE << >>

seoFindings(w) ==
    Cond(~w.page.title, "Missing title tag")
    \o Cond(~w.page.metaDescription, "Missing meta description")
    \o Cond(~w.page.canonical, "Missing canonical link")
    \o Cond(w.page.h1count = 0, "No H1 found")
    \o Cond(w.page.h1count > 1, "Multiple H1 tags")
    \o Cond(~(w.sitemap >= 200 /\ w.sitemap < 300), "No sitemap.xml found")
    \o Cond(~(w.robots >= 200 /\ w.robots < 300), "No robots.txt found")
    \o Cond(w.broken > 0, "Broken internal links")

scoreEstimate(w) ==
    Max(40, Min(95, 80 - (w.broken * 3) + (IF w.page.h1count # 0 THEN 0 ELSE -10)))

\* the value of seoResult before analyzeSEO is called
SeoDefault ==
    [threw |-> FALSE, seo |-> [findings |-> << >>, scoreEstimate |-> 0],
     headers |-> [t |-> "plain", names |-> {}, url |-> NoValue], libs |-> FALSE]

\* analyzeSEO(url, fetchWithTimeout): threw = TRUE when one of its un-caught
\* fetches (main page, sitemap.xml, robots.txt) threw
analyzeSEO(w) ==
    IF w.pageThrows \/ w.sitemap = 0 \/ w.robots = 0
    THEN [SeoDefault EXCEPT !.threw = TRUE]
    ELSE [threw |-> FALSE,
          seo |-> [findings |-> seoFindings(w), scoreEstimate |-> scoreEstimate(w)],
          headers |-> [t |-> "Headers", names |-> w.page.names, url |-> NoValue],
          libs |-> w.page.libs]

\* the outbound requests analyzeSEO issued before it returned or threw
seoOutbound(w) ==
    {"page"}
    \cup (IF w.pageThrows THEN {} ELSE {"sitemap"})
    \cup (IF w.pageThrows \/ w.sitemap = 0 THEN {} ELSE {"robots"})
    \cup (IF w.pageThrows \/ w.sitemap = 0 \/ w.robots = 0 \/ w.page.links = 0
          THEN {} ELSE {"link"})

\* ------------------------------------------------------------------------
\* lib/perf.js: callPSI and analyzePerformance
\* ------------------------------------------------------------------------
\* what the PageSpeed request of one strategy yields (k): the fetch throws, an
\* HTTP status >= 400 ("http_err"), a body that is not JSON ("bad_json"), a
\* JSON without categories.performance ("no_category"), or a performance
\* category with score pct (0..100)
NoPsi == [t |-> "undefined", error |-> "", perfScore |-> JUndef]

\* the object callPSI resolves to (k # "throw")
callPSI(o) ==
    CASE o.k = "http_err" -> [t |-> "object", error |-> "PSI request failed", perfScore |-> JUndef]
      [] o.k = "bad_json" -> [t |-> "object", error |-> "Invalid PSI JSON response", perfScore |-> JUndef]
      [] o.k = "no_category" -> [t |-> "object", error |-> "", perfScore |-> [t |-> "null", n |-> 0]]
      [] OTHER -> [t |-> "object", error |-> "", perfScore |-> [t |-> "number", n |-> o.pct]]

\* the environment of one analyzePerformance call: whether its own fetch of
\* the target throws, the elapsed time of that fetch, the two PSI outcomes
PerfWorld(ft, ms, mk, mp, dk, dp) ==
    [fetchThrows |-> ft, elapsed |-> ms,
     mobile |-> [k |-> mk, pct |-> mp], desktop |-> [k |-> dk, pct |-> dp]]

PerfWorlds ==
    { PerfWorld(TRUE, 120, "score", 80, "score", 45),
      PerfWorld(FALSE, 120, "throw", 0, "score", 45),
      PerfWorld(FALSE, 120, "score", 80, "score", 45),
      PerfWorld(FALSE, 1500, "score", 80, "http_err", 0),
      PerfWorld(FALSE, 120, "score", 0, "score", 45),
      PerfWorld(FALSE, 120, "no_category", 0, "bad_json", 0) }

\* the value of perfResult before analyzePerformance is called
PerfDefault ==
    [threw |-> FALSE, mobile |-> NoPsi, desktop |-> NoPsi, serverFetchMs |-> 0, findings |-> << >>]

perfThrows(w) == w.fetchThrows \/ w.mobile.k = "throw" \/ w.desktop.k = "throw"

perfFindings(ms, mobile, desktop) ==
    Cond(ms # 0 /\ ms > 1000, "Slow server response time")
    \o Cond(mobile.perfScore.t # "null"
            /\ (IF mobile.perfScore.t = "number" THEN mobile.perfScore.n < 60 ELSE FALSE),
            "Low mobile performance score")
    \o Cond(desktop.perfScore.t # "null"
            /\ (IF desktop.perfScore.t = "number" THEN desktop.perfScore.n < 70 ELSE FALSE),
            "Low desktop performance score")

analyzePerformance(w) ==
    IF perfThrows(w)
    THEN [PerfDefault EXCEPT !.threw = TRUE]
    ELSE [threw |-> FALSE, mobile |-> callPSI(w.mobile), desktop |-> callPSI(w.desktop),
          serverFetchMs |-> w.elapsed,
          findings |-> perfFindings(w.elapsed, callPSI(w.mobile), callPSI(w.desktop))]

perfOutbound(w) == {"perfpage"} \cup (IF w.fetchThrows THEN {} ELSE {"psi"})

\* ------------------------------------------------------------------------
\* lib/security.js: analyzeSecurity(targetUrl, initialResponse, htmlText).
\* initialResponse is a JavaScript object: t = "response" has the properties
\* headers and url, a Headers object or a plain {} has neither.
\* ------------------------------------------------------------------------
\* the lower-cased header map built from initialResponse.headers.entries()
securityHeaders(initialResponse) ==
    IF initialResponse.t = "response" THEN initialResponse.names ELSE {}

analyzeSecurity(proto, initialResponse, libs) ==
    LET headers == securityHeaders(initialResponse)
        redirects == initialResponse.t = "response" /\ initialResponse.url = "https:"
    IN [headers |-> headers,
        findings |->
            Cond("strict-transport-security" \notin headers, "Missing HSTS")
            \o Cond("content-security-policy" \notin headers, "Missing Content-Security-Policy")
            \o Cond("x-frame-options" \notin headers, "Missing X-Frame-Options")
            \o Cond("referrer-policy" \notin headers, "Missing Referrer-Policy")
            \o Cond(proto = "http:" /\ ~redirects, "No HTTPS redirect")
            \o Cond("access-control-allow-origin:*" \in headers, "Permissive CORS")
            \o Cond(libs, "Detected JS libraries")]

\* the value of securityResult before analyzeSecurity is called
SecurityDefault == [headers |-> {}, findings |-> << >>]

\* ------------------------------------------------------------------------
\* lib/ai.js exports summarizeForPdf and answerQuery, and no summarize: the
\* name imported by run-audit.js is undefined and calling it throws.
\* ------------------------------------------------------------------------
summarizeIsExportedTrue == TRUE

summarizeIsExported == FALSE

AiDefault == [summary |-> "No AI summary produced", recommendations |-> << >>]

\* aiSummary after lines 136-141: calling the undefined import throws and the
\* catch keeps the default; an exported summarizeForPdf would resolve to an
\* object with the keys seoMeta, performanceSummary and securitySummary, which
\* has no summary property
summarizeOrDefault ==
    IF summarizeIsExported THEN [summary |-> NoValue, recommendations |-> << >>]
    ELSE AiDefault

\* ------------------------------------------------------------------------
\* Assembly of auditData
\* ------------------------------------------------------------------------
\* performance.score of auditData
performanceScore(perf) ==
    IF perf.mobile.t = "object" /\ OrZero(perf.mobile.perfScore) # 0
    THEN RoundHalf(perf.mobile.perfScore.n + OrZero(perf.desktop.perfScore))
    ELSE OrZero(perf.desktop.perfScore)

securityScoreTen(sec) == Max(0, 100 - Len(sec.findings) * 10)

\* security.score of auditData
securityScore(sec) == Max(0, 100 - Len(sec.findings) * SECURITY_PENALTY)

\* x || null for a PSI result
OrNull(x) == IF x.t = "object" THEN x ELSE [x EXCEPT !.t = "null"]

\* auditData (raw, which repeats the analyzers' results, and the time stamps
\* are left out)
buildAuditData(u, seoR, perfR, secR, ai) ==
    [url |-> u,
     seo |-> [score |-> seoR.seo.scoreEstimate, findings |-> seoR.seo.findings],
     performance |-> [score |-> performanceScore(perfR), findings |-> perfR.findings,
                      mobile |-> OrNull(perfR.mobile), desktop |-> OrNull(perfR.desktop),
                      serverFetchMs |-> perfR.serverFetchMs],
     security |-> [score |-> securityScore(secR), findings |-> secR.findings,
                   headers |-> secR.headers],
     aiSummary |-> ai]

NoAudit == buildAuditData(EmptyString, SeoDefault, PerfDefault, SecurityDefault, AiDefault)

\* ------------------------------------------------------------------------
\* lib/ai.js: the provider chain of answerQuery and summarizeForPdf
\* ------------------------------------------------------------------------
\* the callers array, in its order
Providers == <<"openai", "gemini", "deepseek">>
ProviderNames == {Providers[i] : i \in 1..Len(Providers)}

\* JSON values a provider's text may parse to
JsonValues ==
    LET Json(type, keyset, ans, cites, urg) ==
            [jt |-> type, keys |-> keyset, answer |-> ans, citations |-> cites,
             urgency |-> urg]
    IN {Json("null", {}, NoValue, {}, NoValue),
        Json("number", {}, NoValue, {}, NoValue),
        Json("array", {}, NoValue, {}, NoValue),
        Json("object", {}, NoValue, {}, NoValue),
        Json("object", {"seoMeta", "performanceSummary", "securitySummary"},
             NoValue, {}, NoValue),
        Json("object", {"answer", "citations", "suggestedActions", "urgency"},
             "model answer", {0}, "High")}

\* the text of a provider's response: blank (white space only), plain text
\* (its first line, and the urgency word it holds, if any) or a JSON text
Texts ==
    LET none == CHOOSE j \in JsonValues : j.jt = "null"
    IN {[form |-> "blank", json |-> none, word |-> NoValue]}
       \cup [form : {"plain"}, json : {none}, word : {NoValue, "Medium", "HIGH"}]
       \cup [form : {"json"}, json : JsonValues, word : {NoValue}]

\* what one provider request yields: the fetch is aborted by the timeout, an
\* HTTP status that is not ok, a body that res.json() rejects, a JSON without
\* the text field, a text field that is not a string, or a text
ProviderOutcomes ==
    [k : {"timeout", "http_error", "bad_body", "no_text", "nonstring"}, text : {NoValue}]
    \cup [k : {"text"}, text : Texts]

\* callOpenAIChat / callGemini / callDeepseek: threw, or the text of the
\* object {raw, text} it resolves to ("empty": the empty string)
callProvider(p, enabled, o) ==
    IF ~enabled THEN [threw |-> TRUE, k |-> "no_key", text |-> NoValue]
    ELSE CASE o.k \in {"timeout", "http_error"} -> [threw |-> TRUE, k |-> o.k, text |-> NoValue]
           [] o.k = "bad_body" ->
                  IF p = "openai" THEN [threw |-> TRUE, k |-> o.k, text |-> NoValue]
                  ELSE [threw |-> FALSE, k |-> "empty", text |-> NoValue]
           [] o.k = "no_text" -> [threw |-> FALSE, k |-> "empty", text |-> NoValue]
           [] o.k = "nonstring" -> [threw |-> FALSE, k |-> "nonstring", text |-> NoValue]
           [] OTHER -> [threw |-> FALSE, k |-> "text", text |-> o.text]

\* the argument relevantJson: an object of n keys (named 1..n here, in
\* Object.keys order) whose joined values match the patterns in feats, or
\* null, or undefined (the default {} applies).
\* firstKeys: Object.keys(relevant).slice(0, k)
firstKeys(relevant, k) == 1..Min(relevant.n, k)

\* a response object of answerQuery, or the value summarizeForPdf resolves to
AiObject(keyset, ans, cites, acts, urg, by) ==
    [t |-> "object", keys |-> keyset, answer |-> ans, citations |-> cites,
     suggestedActions |-> acts, urgency |-> urg, via |-> by]

NoAiResult == [t |-> "undefined", keys |-> {}, answer |-> NoValue, citations |-> {},
               suggestedActions |-> {}, urgency |-> NoValue, via |-> NoValue]

AnswerKeys == {"answer", "citations", "suggestedActions", "urgency"}
SummaryKeys == {"seoMeta", "performanceSummary", "securitySummary"}

fallbackAnswerFromSnippetsSix(relevant, query) ==
    AiObject(AnswerKeys, "AI unavailable", 1..6, {"Review the evidence snippets"}, "Low",
             "fallback")

fallbackAnswerFromSnippets(relevant, query) ==
    LET suggestions ==
            (IF "broken" \in relevant.feats THEN {"Fix broken links"} ELSE {})
            \cup (IF "lcp" \in relevant.feats THEN {"Improve LCP/TTFB"} ELSE {})
            \cup (IF "headers" \in relevant.feats THEN {"Add security headers"} ELSE {})
            \cup (IF "meta" \in relevant.feats THEN {"Add titles and meta descriptions"} ELSE {})
        u1 == IF "broken" \in relevant.feats THEN "Medium" ELSE "Low"
        u2 == IF "lcp" \in relevant.feats THEN (IF u1 = "High" THEN "High" ELSE "Medium") ELSE u1
        u3 == IF "headers" \in relevant.feats THEN "Medium" ELSE u2
    IN AiObject(AnswerKeys, "AI unavailable", firstKeys(relevant, 6),
                IF suggestions = {} THEN {"Review the evidence snippets"} ELSE suggestions,
                u3, "fallback")

\* answerQuery, lines 378-405: what the loop body does with the settled call
\* of provider p: failed (the catch of line 406 logs and goes on) or the
\* object it returns
answerFromProvider(p, r, relevant) ==
    LET citations == firstKeys(relevant, 8)
        failed == [failed |-> TRUE, result |-> NoAiResult]
        heuristic(first, word) ==
            [failed |-> FALSE,
             result |-> AiObject(AnswerKeys, first, citations, {},
                                 IF word = NoValue THEN "Low" ELSE word, p)]
    IN CASE r.threw -> failed
         [] r.k = "nonstring" -> failed            \* resp.text.trim is not a function
         [] r.k = "empty" -> failed                \* returned empty
         [] r.text.form = "blank" -> failed        \* trim() leaves the empty string
         [] r.text.form = "plain" -> heuristic("first line", r.text.word)
         [] r.text.json.jt = "null" -> heuristic("null", NoValue)  \* parsed.answer throws
         [] r.text.json.jt = "object" ->
                [failed |-> FALSE,
                 result |-> AiObject(AnswerKeys,
                                     IF "answer" \in r.text.json.keys
                                     THEN r.text.json.answer ELSE "",
                                     IF "citations" \in r.text.json.keys
                                     THEN r.text.json.citations ELSE firstKeys(relevant, 6),
                                     {},
                                     IF "urgency" \in r.text.json.keys
                                     THEN r.text.json.urgency ELSE "Low",
                                     p)]
         [] OTHER ->
                [failed |-> FALSE,
                 result |-> AiObject(AnswerKeys, "", firstKeys(relevant, 6), {}, "Low", p)]

\* summarizeForPdf, lines 327-345: the same for summarizeForPdf; a text that
\* JSON.parse accepts is returned as parsed
summaryFromProvider(p, r) ==
    LET failed == [failed |-> TRUE, result |-> NoAiResult]
        fromLines == [failed |-> FALSE,
                      result |-> AiObject(SummaryKeys, NoValue, {}, {}, NoValue, p)]
    IN CASE r.threw -> failed
         [] r.k = "nonstring" -> failed
         [] r.k = "empty" -> fromLines             \* JSON.parse("") throws
         [] r.text.form \in {"blank", "plain"} -> fromLines
         [] OTHER ->
                [failed |-> FALSE,
                 result |-> [t |-> r.text.json.jt, keys |-> r.text.json.keys,
                             answer |-> NoValue, citations |-> {}, suggestedActions |-> {},
                             urgency |-> NoValue, via |-> p]]

\* the final fallback of summarizeForPdf, lines 349-353
summaryFallback == AiObject(SummaryKeys, NoValue, {}, {}, NoValue, "fallback")


\* ------------------------------------------------------------------------
\* The audit store: data/audits.json as run-audit writes it and as
\* chat-analyst and generate-report-pdf read it (findAuditByIdOrSite), and
\* the per-record files under data/audits/.
\* ------------------------------------------------------------------------
\* crypto.randomUUID(): the n-th identifier handed out
Uuids == <<"id-1", "id-2", "id-3", "id-4">>

randomUUIDFixed(n) == Uuids[1]

randomUUID(n) == Uuids[n]

\* meta.url of a record: its text, whether new URL() accepts it, its
\* hostname, and the strings of interest that the text includes
Urls ==
    [a |-> [text |-> "https://example.com", valid |-> TRUE, host |-> "example.com",
            subs |-> {"https://example.com", "example.com", "example"}],
     b |-> [text |-> "https://example.com/shop", valid |-> TRUE, host |-> "example.com",
            subs |-> {"https://example.com/shop", "https://example.com", "example.com",
                      "example", "shop"}],
     c |-> [text |-> "/pages/example", valid |-> FALSE, host |-> NoValue,
            subs |-> {"/pages/example", "example"}],
     none |-> [text |-> NoValue, valid |-> FALSE, host |-> NoValue, subs |-> {}]]

\* a record of the store: the key it is stored under, meta.siteId, meta.url
\* and a token for the rest of its content
Record(k, site, u, d) == [key |-> k, siteId |-> site, url |-> u, data |-> d]
NoRecord == Record(NoValue, NoValue, Urls.none, NoValue)

\* the content of data/audits.json: absent, a JSON object (its entries in
\* Object.entries order), empty (truncated, nothing written yet) or partial
\* (some prefix of a JSON text)
Store(content, recs) == [state |-> content, audits |-> recs]

\* run-audit.js, lines 172-180: the audits read back before the save
existingRecordsNone(file) == << >>

existingRecords(file) == IF file.state = "json" THEN file.audits ELSE << >>

putRecordAlone(recs, e) == <<e>>

\* existingAudits[auditId] = auditData
putRecord(recs, e) ==
    IF \E i \in 1..Len(recs) : recs[i].key = e.key
    THEN [i \in 1..Len(recs) |-> IF recs[i].key = e.key THEN e ELSE recs[i]]
    ELSE Append(recs, e)

\* loadAllAuditsJson(): null for a missing or unparseable file; an empty
\* file reads as {}
loadAllAuditsJson(file) ==
    CASE file.state = "json" -> [ok |-> TRUE, audits |-> file.audits]
      [] file.state = "empty" -> [ok |-> TRUE, audits |-> << >>]
      [] OTHER -> [ok |-> FALSE, audits |-> << >>]

\* the tests of the scan, lines 49-59, on one record
matchesRecord(e, id) ==
    \/ (e.siteId # NoValue /\ e.siteId = id)
    \/ (e.url.text # NoValue /\ e.url.text = id)
    \/ (e.url.text # NoValue /\ e.url.valid /\ (e.url.host = id \/ id \in e.url.subs))

\* data/audits/{id}.json as step 2 reads it, and the file that
\* storage.getAudit(id) reads
SideStates == {"absent", "json", "unreadable"}
NoSide == [perFile |-> "absent", storage |-> "absent"]
SideRecord(id, from) == Record(id, NoValue, Urls.none, from)

NotFound == [kind |-> "none", rec |-> NoRecord]

\* findAuditByIdOrSite(id), given what loadAllAuditsJson resolved to
findAuditByIdOrSite(loaded, id, side) ==
    LET recs == loaded.audits
        direct == {i \in 1..Len(recs) : recs[i].key = id}
        hits == {i \in 1..Len(recs) : matchesRecord(recs[i], id)}
        first(S) == CHOOSE i \in S : \A j \in S : i <= j
        \* audits[id] is also truthy for a name that every object inherits
        inherited == {"constructor", "toString", "__proto__"}
    IN IF loaded.ok /\ direct # {} THEN [kind |-> "key", rec |-> recs[first(direct)]]
       ELSE IF loaded.ok /\ id \in inherited
       THEN [kind |-> "inherited", rec |-> SideRecord(id, "inherited")]
       ELSE IF loaded.ok /\ hits # {} THEN [kind |-> "scan", rec |-> recs[first(hits)]]
       ELSE IF side.perFile = "json" THEN [kind |-> "perFile", rec |-> SideRecord(id, "per-file")]
       ELSE IF side.storage = "json" THEN [kind |-> "storage", rec |-> SideRecord(id, "storage")]
       ELSE NotFound

\* ------------------------------------------------------------------------
\* State
\* ------------------------------------------------------------------------
IPs == {"ipA", "ipB"}

VARIABLES
    now,            \* Date.now()
    route,          \* the API route whose limiter receives the traffic
    limiter,        \* run-audit.js: limiter (Map ip -> {count, windowStart})
    chatLimiter,    \* chat-analyst.js: limiter (Map ip -> {count, start})
    rateLimiter,    \* generate-report-pdf.js: rateLimiter
    chartLimiter,   \* audit-chart-data.js: limiter
    last,           \* the latest limiter decision and what it was taken on
    admitted,       \* per identity: requests admitted since its window started
    pc,             \* where the run-audit handler is: idle, dns, seo, perf, done
    method,         \* req.method of the request
    body,           \* req.body of the request
    url,            \* the trimmed url of the request
    dns,            \* what dns.lookup gave for the request (state, set of addresses)
    status,         \* HTTP status of the response (0: none yet)
    errorMsg,       \* error text of the response
    retryAfter,     \* Retry-After header of the response (-1: not set)
    raised,         \* the handler threw (the framework answers 500)
    logs,           \* console.warn / console.error tags written for the request
    threw,          \* the analyzers that threw or rejected during the request
    outbound,       \* kinds of network operations issued for the request
    seoResult, perfResult, securityResult, aiSummary,
    auditData,      \* the audit sent with the 200 response
    auditId,        \* its identifier (0: none)
    nextId,         \* number of crypto.randomUUID() calls so far
    auditsFile,     \* data/audits.json: its state and the keys of the object it holds
                    \* (the value under the key auditId is auditData)
    wrote,          \* the request wrote data/audits.json
    aiKeys,         \* lib/ai.js: the providers whose API key is set in the environment
    aiOp,           \* the call of lib/ai.js in progress: answerQuery or summarizeForPdf
    aiPc,           \* idle, await (a provider call is pending), returned, threw
    aiArgs,         \* its arguments
    aiCaller,       \* index in callers of the provider awaited
    aiCalls,        \* the providers invoked by the call, in order
    aiFailed,       \* the providers whose invocation failed in the call
    aiResult,       \* the value the call resolved to
    sFile,          \* store model: the content of data/audits.json, with its records
    sSide,          \* the per-record files of the identifier looked up
    sUuids,         \* number of crypto.randomUUID() calls
    sReq,           \* the run-audit requests in flight, by slot
    sWriter,        \* the slot inside fs.writeFileSync ("none": nobody)
    sPending,       \* the object that writeFileSync is writing
    sAnswered,      \* the records sent with a 200 response
    sLookup,        \* the findAuditByIdOrSite call in progress or finished: what its
                    \* read gave, whether a write was under way then (torn), and the
                    \* records answered before the read (known)
    chat,           \* the chat-analyst request: where its handler is, what it was
                    \* given, what the lookup found, and the response
    storage,        \* lib/storage.js: the files under data/audits (file, tmp, by
                    \* safe name), the saveAudit calls by caller, the last getAudit,
                    \* and what each siteId was last saved with
    sweep           \* lib/seo.js: the internal-link sweep of one analyzeSEO call

limiterVars == <<now, route, limiter, chatLimiter, rateLimiter, chartLimiter, last, admitted>>
requestVars == <<pc, method, body, url, dns, status, errorMsg, retryAfter, raised, logs, threw,
                 outbound, seoResult, perfResult, securityResult, aiSummary, auditData,
                 auditId, wrote>>
storeVars == <<nextId, auditsFile>>
aiVars == <<aiKeys, aiOp, aiPc, aiArgs, aiCaller, aiCalls, aiFailed, aiResult>>
sVars == <<sFile, sSide, sUuids, sReq, sWriter, sPending, sAnswered, sLookup>>
xVars == <<chat, storage, sweep>>
auxVars == <<aiVars, sVars, xVars>>
vars == <<limiterVars, requestVars, storeVars, auxVars>>

NoFile == [state |-> "absent", audits |-> {}]
InitLimiters ==
    /\ now = 0
    /\ limiter = [i \in IPs |-> NoRec]
    /\ chatLimiter = [i \in IPs |-> NoRec]
    /\ rateLimiter = [i \in IPs |-> NoRec]
    /\ chartLimiter = [i \in IPs |-> NoRec]
    /\ last = [route |-> "none", ip |-> "none", pre |-> NoRec, at |-> 0, allowed |-> TRUE,
               retryAfter |-> -1]
    /\ admitted = [i \in IPs |-> 0]

InitRequest ==
    /\ pc = "idle"
    /\ method = "none"
    /\ body = NoBody
    /\ url = EmptyString
    /\ dns = NoDns
    /\ status = 0
    /\ errorMsg = ""
    /\ retryAfter = -1
    /\ raised = FALSE
    /\ logs = {}
    /\ threw = {}
    /\ outbound = {}
    /\ seoResult = SeoDefault
    /\ perfResult = PerfDefault
    /\ securityResult = SecurityDefault
    /\ aiSummary = AiDefault
    /\ auditData = NoAudit
    /\ auditId = 0
    /\ wrote = FALSE

NoAiArgs == [relevant |-> [t |-> "undefined", n |-> 0, feats |-> {}], query |-> "", raw |-> "undefined"]

\* no call of lib/ai.js in progress
InitAi ==
    /\ aiOp = "none"
    /\ aiPc = "idle"
    /\ aiArgs = NoAiArgs
    /\ aiCaller = 0
    /\ aiCalls = << >>
    /\ aiFailed = {}
    /\ aiResult = NoAiResult

Slots == {"r1", "r2"}
IdleSlot == [pc |-> "idle", rec |-> NoRecord, status |-> 0, overlap |-> FALSE]
NoLookup == [pc |-> "idle", id |-> NoValue, read |-> Store("absent", << >>), torn |-> FALSE,
             known |-> {}, result |-> NotFound]

\* no chat-analyst request yet
NoChat == [pc |-> "idle", method |-> "none", admitted |-> FALSE, query |-> NoValue,
           id |-> "", found |-> NotFound,
           relevant |-> [t |-> "object", n |-> 0, feats |-> {}],
           status |-> 0, fields |-> {}]

\* lib/storage.js: the site identifiers of the model, strings written as
\* sequences of characters
SiteIds == {<<"a", "/", "b">>, <<"a", "_", "b">>, <<"c">>}

\* siteId.replace(/[^a-zA-Z0-9\-_.]/g, "_") (lines 22 and 31): the name of
\* the file of siteId in data/audits
safeName(siteId) ==
    [i \in 1..Len(siteId) |->
        IF siteId[i] \in {"a", "b", "c", "0", "1", "-", "_", "."} THEN siteId[i] ELSE "_"]

\* data/audits is empty and no call was made.  A file is <<"absent">>,
\* <<"empty">> (opened for writing, nothing written yet) or holds the JSON
\* text of a record, <<"json", site, d>>: the d-th object passed to a save
\* for site.  getAudit gives such a record, <<"null">> or <<"threw">>.
NoStorage ==
    [file |-> [n \in {safeName(x) : x \in SiteIds} |-> <<"absent">>],
     tmp |-> [n \in {safeName(x) : x \in SiteIds} |-> <<"absent">>],
     calls |-> [c \in Slots |-> [pc |-> "idle", siteId |-> << >>, data |-> <<"null">>,
                                 moved |-> FALSE]],
     got |-> [pc |-> "idle", siteId |-> << >>, result |-> <<"null">>],
     saved |-> [x \in SiteIds |-> <<"null">>],
     saves |-> 0,
     overlapped |-> FALSE]

\* ------------------------------------------------------------------------
\* lib/fetcher.js and the link sweep of lib/seo.js.  A URL is [origin, path];
\* an href is such a URL, a relative reference (origin "relative") or a text
\* that new URL() rejects (origin "invalid").  The audited page is at origin
\* "self".
\* ------------------------------------------------------------------------
\* new URL(href, base).toString(), null when the constructor throws
normalizeHref(href, base) ==
    CASE href.origin = "invalid" -> [origin |-> "null", path |-> ""]
      [] href.origin = "relative" -> [origin |-> base.origin, path |-> href.path]
      [] OTHER -> href

isInternal(href, baseOrigin) == href.origin = baseOrigin

\* the links array after the $('a[href]').each loop over the first k anchors
\* (lines 82-91)
RECURSIVE collectLinks(_, _, _, _)
collectLinks(anchors, k, targetUrl, maxLinks) ==
    IF k = 0 THEN << >>
    ELSE LET links == collectLinks(anchors, k - 1, targetUrl, maxLinks)
             abs == normalizeHref(anchors[k], targetUrl)
         IN IF Len(links) >= maxLinks THEN links
            ELSE IF abs.origin = "null" THEN links
            ELSE IF isInternal(abs, targetUrl.origin)
                    /\ \A i \in 1..Len(links) : links[i] # abs
                 THEN Append(links, abs)
                 ELSE links

\* what one request meets: fetch rejects ("error": connection failure,
\* "timeout": the abort fires before the response headers), or a response of
\* some status arrives, whose content-type is textual or not (ct) and whose
\* body can be read ("ok") or fails while being read, the abort during the
\* body included ("error")
FetchWorlds ==
    [net : {"error", "timeout"}, status : {0}, ct : {FALSE}, body : {"ok"}]
    \cup [net : {"response"}, status : {200, 404, 405, 501}, ct : {TRUE}, body : {"ok", "error"}]
    \cup [net : {"response"}, status : {200, 404, 405, 501}, ct : {FALSE}, body : {"ok"}]

fetchWithTimeoutStrict(w) ==
    IF w.net # "response" \/ w.body # "ok"
    THEN [threw |-> TRUE, ok |-> FALSE, status |-> 0, text |-> "none"]
    ELSE [threw |-> FALSE, ok |-> w.status >= 200 /\ w.status <= 299, status |-> w.status,
          text |-> IF w.ct THEN "body" ELSE "null"]

\* fetchWithTimeout(url, opts) of lib/fetcher.js (lines 25-54), called without
\* a signal: threw when `await fetch` rejects; text is null unless the
\* content-type is textual and res.text() resolves
fetchWithTimeout(w) ==
    IF w.net # "response"
    THEN [threw |-> TRUE, ok |-> FALSE, status |-> 0, text |-> "none"]
    ELSE [threw |-> FALSE, ok |-> w.status >= 200 /\ w.status <= 299, status |-> w.status,
          text |-> IF w.ct /\ w.body = "ok" THEN "body" ELSE "null"]

\* no sweep started
NoSweep == [pc |-> "idle", maxLinks |-> 0, links |-> << >>,
            checks |-> << >>, broken |-> << >>, brokenLinks |-> << >>]

\* the store model at rest, with nothing in flight
InitStoreIdle ==
    /\ chat = NoChat
    /\ storage = NoStorage
    /\ sweep = NoSweep
    /\ sUuids = 0
    /\ sReq = [r \in Slots |-> IdleSlot]
    /\ sWriter = "none"
    /\ sPending = << >>
    /\ sAnswered = {}
    /\ sLookup = NoLookup

InitAux ==
    /\ aiKeys = {}
    /\ InitAi
    /\ sFile = Store("absent", << >>)
    /\ sSide = NoSide
    /\ InitStoreIdle

Init ==
    /\ InitLimiters
    /\ route = "run-audit"
    /\ InitRequest
    /\ nextId = 0
    /\ auditsFile = NoFile
    /\ InitAux

\* ------------------------------------------------------------------------
\* run-audit.js: handler
\* ------------------------------------------------------------------------
\* getClientIp(req) || "unknown": the first entry of x-forwarded-for when the
\* header is there, else the socket's address
getClientIp(xff, remote) ==
    IF Len(xff) > 0 THEN xff[1]
    ELSE IF remote # NoValue THEN remote ELSE "unknown"

Respond(st, msg) ==
    /\ pc' = "done"
    /\ status' = st
    /\ errorMsg' = msg

\* the ghost counter of admitted requests of ip's current window
Admit(ip, pre, post, allowed) ==
    admitted' = [admitted EXCEPT ![ip] =
                    (IF pre = NoRec \/ post.windowStart # pre.windowStart THEN 0 ELSE @)
                    + (IF allowed THEN 1 ELSE 0)]

\* the handler up to its first await (dns.lookup inside isPrivateAddress)
Receive(m, xff, remote, b) ==
    /\ route = "run-audit"
    /\ pc \in {"idle", "done"}
    /\ nextId < MaxAudits
    /\ method' = m
    /\ body' = b
    /\ LET ip == getClientIp(xff, remote)
           rl == rateLimit(limiter[ip], now)
           u == IF Truthy(b.url) THEN b.url ELSE EmptyString
           lookup == /\ m = "POST" /\ rl.allowed /\ b.kind = "object"
                     /\ u.t = "string" /\ validateUrlText(Trim(u)) = "null"
       IN /\ limiter[ip].count < RATE_LIMIT_MAX + MaxOver
          /\ dns' = NoDns /\ raised' = (m = "POST" /\ rl.allowed /\
                                         (b.kind = "null" \/
                                          (b.kind = "object" /\ u.t # "string")))
          /\ logs' = {} /\ threw' = {} /\ wrote' = FALSE
          /\ outbound' = (IF lookup THEN {"dns"} ELSE {})
          /\ seoResult' = SeoDefault /\ perfResult' = PerfDefault
          /\ securityResult' = SecurityDefault /\ aiSummary' = AiDefault
          /\ auditData' = NoAudit /\ auditId' = 0
          /\ IF m # "POST"
             THEN /\ Respond(405, "Method not allowed")
                  /\ url' = EmptyString /\ retryAfter' = -1
                  /\ UNCHANGED <<limiter, last, admitted>>
             ELSE /\ limiter' = [limiter EXCEPT ![ip] = rl.rec]
                  /\ last' = [route |-> "run-audit", ip |-> ip, pre |-> limiter[ip], at |-> now,
                              allowed |-> rl.allowed,
                              retryAfter |-> IF rl.allowed THEN -1 ELSE retryAfterHeader(rl)]
                  /\ Admit(ip, limiter[ip], rl.rec, rl.allowed)
                  /\ retryAfter' = (IF rl.allowed THEN -1 ELSE retryAfterHeader(rl))
                  /\ IF ~rl.allowed
                     THEN Respond(429, "Rate limit exceeded") /\ url' = EmptyString
                     ELSE CASE b.kind = "unparseable" ->
                                   Respond(400, "Invalid JSON body") /\ url' = EmptyString
                            [] b.kind = "null" ->
                                   \* b.url on null throws a TypeError
                                   Respond(500, "TypeError") /\ url' = EmptyString
                            [] b.kind = "object" /\ u.t # "string" ->
                                   \* (b.url || "").trim is not a function
                                   Respond(500, "TypeError") /\ url' = EmptyString
                            [] OTHER ->
                                   /\ url' = Trim(u)
                                   /\ IF validateUrlText(Trim(u)) # "null"
                                      THEN Respond(400, validateUrlText(Trim(u)))
                                      ELSE /\ pc' = "dns"
                                           /\ status' = 0 /\ errorMsg' = ""
    /\ UNCHANGED <<now, route, chatLimiter, rateLimiter, chartLimiter, storeVars, auxVars>>

DnsDoneNoReturn(ans) ==
    /\ pc = "dns"
    /\ dns' = Resolved(ans)
    /\ pc' = "seo"
    /\ IF isPrivateAddress(ans)
       THEN status' = 400 /\ errorMsg' = "URL resolves to a private or disallowed IP"
       ELSE UNCHANGED <<status, errorMsg>>
    /\ UNCHANGED <<auxVars, limiterVars, storeVars, method, body, url, retryAfter, raised, logs, threw,
                   outbound, seoResult, perfResult, securityResult, aiSummary, auditData,
                   auditId, wrote>>

\* dns.lookup settles: the rest of isPrivateAddress and the handler's test
\* (lines 100-106).  isPrivateAddress catches a rejected lookup itself, so
\* the handler's catch and its console.warn are never reached.
DnsDone(ans) ==
    /\ pc = "dns"
    /\ dns' = Resolved(ans)
    /\ IF isPrivateAddress(ans)
       THEN Respond(400, "URL resolves to a private or disallowed IP")
       ELSE pc' = "seo" /\ UNCHANGED <<status, errorMsg>>
    /\ UNCHANGED <<auxVars, limiterVars, storeVars, method, body, url, retryAfter, raised, logs, threw,
                   outbound, seoResult,
                   perfResult, securityResult, aiSummary, auditData, auditId, wrote>>

\* analyzeSEO settles (lines 110-115); the handler then calls
\* analyzePerformance and waits for it
SeoDone(w) ==
    /\ pc = "seo"
    /\ pc' = "perf"
    /\ dns' = [dns EXCEPT !.addrs = {}]
    /\ outbound' = outbound \cup seoOutbound(w)
    /\ IF analyzeSEO(w).threw
       THEN seoResult' = SeoDefault /\ logs' = logs \cup {"[SEO Error]"}
            /\ threw' = threw \cup {"seo"}
       ELSE seoResult' = analyzeSEO(w) /\ UNCHANGED <<logs, threw>>
    /\ UNCHANGED <<auxVars, limiterVars, storeVars, method, body, url, status, errorMsg, retryAfter,
                   raised, perfResult, securityResult, aiSummary, auditData, auditId, wrote>>

\* the audits read back from data/audits.json (lines 173-180)
existingAudits(file) == IF file.state = "json" THEN file.audits ELSE {}

\* Lines 125-186, which run without an await once analyzePerformance has
\* settled, because summarize(...) throws before anything is awaited:
\* analyzeSecurity, summarize, the assembly of auditData, the save, the response.
\*   perfR: the value of perfResult;  perfLogs: what the catch of lines 121-123 logged
\*   secThrows: analyzeSecurity throws;  write: what fs.writeFileSync does
FinishAudit(perfR, perfLogs, w, secThrows, write) ==
    LET secR == IF secThrows THEN SecurityDefault
                ELSE analyzeSecurity(url.proto, seoResult.headers, seoResult.libs)
        data == buildAuditData(url, seoResult, perfR, secR, summarizeOrDefault)
        id == nextId + 1
    IN /\ perfResult' = perfR
       /\ securityResult' = secR
       /\ aiSummary' = summarizeOrDefault
       /\ logs' = logs \cup perfLogs
                       \cup (IF secThrows THEN {"[Security Error]"} ELSE {})
                       \cup (IF summarizeIsExported THEN {} ELSE {"[AI Summary Error]"})
       /\ threw' = threw \cup (IF analyzePerformance(w).threw THEN {"perf"} ELSE {})
                         \cup (IF secThrows THEN {"security"} ELSE {})
       /\ outbound' = outbound \cup perfOutbound(w)
       /\ nextId' = id
       /\ pc' = "done"
       /\ IF write = "ok"
          THEN /\ auditsFile' = [state |-> "json",
                                 audits |-> existingAudits(auditsFile) \cup {id}]
               /\ wrote' = TRUE
               /\ status' = 200 /\ errorMsg' = "" /\ raised' = FALSE
               /\ auditData' = data /\ auditId' = id
          ELSE /\ auditsFile' = (IF write = "truncates"
                                 THEN [state |-> "corrupt", audits |-> {}]
                                 ELSE auditsFile)
               /\ wrote' = (write = "truncates")
               /\ status' = 500 /\ errorMsg' = "write failed" /\ raised' = TRUE
               /\ UNCHANGED <<auditData, auditId>>
       /\ UNCHANGED <<auxVars, limiterVars, method, body, url, dns, retryAfter, seoResult>>

PerfDoneNoCatch(w, secThrows, write) ==
    /\ pc = "perf"
    /\ IF analyzePerformance(w).threw
       THEN /\ Respond(500, "analyzePerformance threw")
            /\ raised' = TRUE
            /\ threw' = threw \cup {"perf"}
            /\ outbound' = outbound \cup perfOutbound(w)
            /\ UNCHANGED <<auxVars, limiterVars, storeVars, method, body, url, dns, retryAfter, logs,
                           seoResult, perfResult, securityResult, aiSummary, auditData,
                           auditId, wrote>>
       ELSE FinishAudit(analyzePerformance(w), {}, w, secThrows, write)

\* analyzePerformance settles (lines 117-123) and the handler runs to its end
PerfDone(w, secThrows, write) ==
    /\ pc = "perf"
    /\ IF analyzePerformance(w).threw
       THEN FinishAudit(PerfDefault, {"[Performance Error]"}, w, secThrows, write)
       ELSE FinishAudit(analyzePerformance(w), {}, w, secThrows, write)

\* ------------------------------------------------------------------------
\* The limiters of the four routes.  Each gate is the start of a handler, up
\* to the 429 response: identity, rateLimit(ip), Retry-After.  What an
\* admitted request does next does not touch the limiter.
\* ------------------------------------------------------------------------
rateLimitChatSliding(rec, t) ==
    LET r0 == IF rec = NoRec THEN [count |-> 0, windowStart |-> t] ELSE rec
        r1 == IF t - r0.windowStart > CHAT_RATE_WINDOW_MS
              THEN [count |-> 1, windowStart |-> t]
              ELSE IF r0.count + 1 > CHAT_RATE_MAX
              THEN [count |-> r0.count + 1, windowStart |-> t]
              ELSE [r0 EXCEPT !.count = @ + 1]
    IN [rec |-> r1, allowed |-> r1.count <= CHAT_RATE_MAX]

\* chat-analyst.js: rateLimit(ip); the record's fields are count and start
rateLimitChat(rec, t) ==
    LET r0 == IF rec = NoRec THEN [count |-> 0, windowStart |-> t] ELSE rec
        r1 == IF t - r0.windowStart > CHAT_RATE_WINDOW_MS
              THEN [count |-> 1, windowStart |-> t]
              ELSE [r0 EXCEPT !.count = @ + 1]
    IN [rec |-> r1, allowed |-> r1.count <= CHAT_RATE_MAX]

\* generate-report-pdf.js: rateLimit(ip)
rateLimitPdf(rec, t) ==
    LET r0 == IF rec = NoRec THEN [count |-> 0, windowStart |-> t] ELSE rec
        r1 == IF t - r0.windowStart > PDF_RATE_WINDOW_MS
              THEN [count |-> 1, windowStart |-> t]
              ELSE [r0 EXCEPT !.count = @ + 1]
    IN [rec |-> r1, allowed |-> r1.count <= PDF_RATE_MAX]

\* audit-chart-data.js: rateLimit(ip)
rateLimitChart(rec, t) ==
    LET r0 == IF rec = NoRec THEN [count |-> 0, windowStart |-> t] ELSE rec
        r1 == IF t - r0.windowStart > CHART_RATE_WINDOW_MS
              THEN [count |-> 0, windowStart |-> t]
              ELSE r0
        r2 == [r1 EXCEPT !.count = @ + 1]
    IN [rec |-> r2, allowed |-> r2.count <= CHART_RATE_MAX]

\* the model follows an identity up to MaxOver requests past the maximum of
\* a window
Followed(rec, max, window) ==
    rec.count < max + MaxOver \/ now - rec.windowStart > window

Decision(r, ip, pre, allowed, hdr) ==
    [route |-> r, ip |-> ip, pre |-> pre, at |-> now, allowed |-> allowed, retryAfter |-> hdr]

\* run-audit.js, lines 82-87
RunAuditGate(ip) ==
    /\ route = "run-audit"
    /\ Followed(limiter[ip], RATE_LIMIT_MAX, RATE_LIMIT_WINDOW_MS)
    /\ LET rl == rateLimit(limiter[ip], now)
       IN /\ limiter' = [limiter EXCEPT ![ip] = rl.rec]
          /\ last' = Decision(route, ip, limiter[ip], rl.allowed,
                              IF rl.allowed THEN -1 ELSE retryAfterHeader(rl))
          /\ Admit(ip, limiter[ip], rl.rec, rl.allowed)
    /\ UNCHANGED <<now, route, chatLimiter, rateLimiter, chartLimiter, requestVars, storeVars, auxVars>>

\* chat-analyst.js, lines 144-148
ChatAnalystGate(ip) ==
    /\ route = "chat-analyst"
    /\ Followed(chatLimiter[ip], CHAT_RATE_MAX, CHAT_RATE_WINDOW_MS)
    /\ LET rl == rateLimitChat(chatLimiter[ip], now)
       IN /\ chatLimiter' = [chatLimiter EXCEPT ![ip] = rl.rec]
          /\ last' = Decision(route, ip, chatLimiter[ip], rl.allowed,
                              IF rl.allowed THEN -1 ELSE Ceil1000(CHAT_RATE_WINDOW_MS))
          /\ Admit(ip, chatLimiter[ip], rl.rec, rl.allowed)
    /\ UNCHANGED <<now, route, limiter, rateLimiter, chartLimiter, requestVars, storeVars, auxVars>>

\* generate-report-pdf.js, lines 85-89
GenerateReportPdfGate(ip) ==
    /\ route = "generate-report-pdf"
    /\ Followed(rateLimiter[ip], PDF_RATE_MAX, PDF_RATE_WINDOW_MS)
    /\ LET rl == rateLimitPdf(rateLimiter[ip], now)
       IN /\ rateLimiter' = [rateLimiter EXCEPT ![ip] = rl.rec]
          /\ last' = Decision(route, ip, rateLimiter[ip], rl.allowed,
                              IF rl.allowed THEN -1 ELSE Ceil1000(PDF_RATE_WINDOW_MS))
          /\ Admit(ip, rateLimiter[ip], rl.rec, rl.allowed)
    /\ UNCHANGED <<now, route, limiter, chatLimiter, chartLimiter, requestVars, storeVars, auxVars>>

\* audit-chart-data.js, lines 31-32: a 429 without a Retry-After header
AuditChartDataGate(ip) ==
    /\ route = "audit-chart-data"
    /\ Followed(chartLimiter[ip], CHART_RATE_MAX, CHART_RATE_WINDOW_MS)
    /\ LET rl == rateLimitChart(chartLimiter[ip], now)
       IN /\ chartLimiter' = [chartLimiter EXCEPT ![ip] = rl.rec]
          /\ last' = Decision(route, ip, chartLimiter[ip], rl.allowed, -1)
          /\ Admit(ip, chartLimiter[ip], rl.rec, rl.allowed)
    /\ UNCHANGED <<now, route, limiter, chatLimiter, rateLimiter, requestVars, storeVars, auxVars>>

\* time passes
Tick(t) ==
    /\ t > now
    /\ now' = t
    /\ UNCHANGED <<route, limiter, chatLimiter, rateLimiter, chartLimiter, last, admitted,
                   requestVars, storeVars, auxVars>>

InitLimiterSpec ==
    /\ InitLimiters
    /\ route \in {"run-audit", "chat-analyst", "generate-report-pdf", "audit-chart-data"}
    /\ InitRequest
    /\ nextId = 0
    /\ auditsFile = NoFile
    /\ InitAux

NextLimiter ==
    \/ \E t \in {0, 1500, RATE_LIMIT_WINDOW_MS, RATE_LIMIT_WINDOW_MS + 1,
                 2 * RATE_LIMIT_WINDOW_MS + 2} : Tick(t)
    \/ \E ip \in IPs : RunAuditGate(ip)
    \/ \E ip \in IPs : ChatAnalystGate(ip)
    \/ \E ip \in IPs : GenerateReportPdfGate(ip)
    \/ \E ip \in IPs : AuditChartDataGate(ip)

SpecLimiter == InitLimiterSpec /\ [][NextLimiter]_vars

\* the Map and the constants of the route under traffic
RouteLimiter ==
    CASE route = "run-audit" -> limiter
      [] route = "chat-analyst" -> chatLimiter
      [] route = "generate-report-pdf" -> rateLimiter
      [] OTHER -> chartLimiter

RouteMax ==
    CASE route = "run-audit" -> RATE_LIMIT_MAX
      [] route = "chat-analyst" -> CHAT_RATE_MAX
      [] route = "generate-report-pdf" -> PDF_RATE_MAX
      [] OTHER -> CHART_RATE_MAX

RouteWindow ==
    CASE route = "run-audit" -> RATE_LIMIT_WINDOW_MS
      [] route = "chat-analyst" -> CHAT_RATE_WINDOW_MS
      [] route = "generate-report-pdf" -> PDF_RATE_WINDOW_MS
      [] OTHER -> CHART_RATE_WINDOW_MS

Next ==
    \/ \E m \in {"GET"} : Receive(m, << >>, "ipA", NoBody)
    \/ \E xff \in {<< >>, <<"ipA", "ipB">>}, b \in Bodies : Receive("POST", xff, "ipA", b)
    \/ \E ans \in DnsResults : DnsDone(ans)
    \/ \E w \in SeoWorlds : SeoDone(w)
    \/ \E w \in PerfWorlds, secThrows \in BOOLEAN, write \in {"ok", "fails", "truncates"} :
          PerfDone(w, secThrows, write)

Spec == Init /\ [][Next]_vars

\* The handler under the timers of the code.  Every request of analyzeSEO
\* and analyzePerformance goes through fetchWithTimeout, whose timer aborts
\* the request and the reading of its body after 10 s, so both analyzers
\* settle.  dns.lookup(hostname, {all: true}) in isPrivateAddress is awaited
\* without a timer or a signal: nothing in the code makes it settle.
SpecTimers ==
    /\ Init /\ [][Next]_vars
    /\ WF_vars(\E w \in SeoWorlds : SeoDone(w))
    /\ WF_vars(\E w \in PerfWorlds, secThrows \in BOOLEAN, write \in {"ok", "fails", "truncates"} :
                  PerfDone(w, secThrows, write))

\* ------------------------------------------------------------------------
\* lib/ai.js: answerQuery and summarizeForPdf, one action per stretch of
\* code between two awaits.  The API keys are read once, when the module is
\* loaded.
\* ------------------------------------------------------------------------
nextCallerAny(i, keys) == IF i <= Len(Providers) THEN i ELSE 0

\* the loop `for (const c of callers) { if (!c.enabled) continue; ...`, from
\* index i on: the index of the next caller it invokes, 0 when there is none
nextCaller(i, keys) ==
    IF \E j \in i..Len(Providers) : Providers[j] \in keys
    THEN CHOOSE j \in i..Len(Providers) :
             /\ Providers[j] \in keys
             /\ \A h \in i..(j - 1) : Providers[h] \notin keys
    ELSE 0

\* the loop goes on from caller i: it invokes the next enabled provider and
\* awaits it, or falls out of the loop and returns the fallback
ContinueChain(i, calls, failedNow, fallback) ==
    LET j == nextCaller(i, aiKeys)
    IN /\ aiFailed' = failedNow
       /\ aiCaller' = j
       /\ IF j # 0
          THEN /\ aiPc' = "await"
               /\ aiCalls' = Append(calls, Providers[j])
               /\ aiResult' = NoAiResult
          ELSE /\ aiPc' = "returned"
               /\ aiCalls' = calls
               /\ aiResult' = fallback

AiThrows ==
    /\ aiPc' = "threw"
    /\ aiCaller' = 0
    /\ aiResult' = NoAiResult

\* relevantJson = {} when the argument is undefined
evidenceOf(relevant) ==
    IF relevant.t = "undefined" THEN [t |-> "object", n |-> 0, feats |-> {}] ELSE relevant

\* answerQuery(relevantJson, query) up to its first await (lines 357-378)
AnswerQueryCall(relevant, query) ==
    /\ aiPc # "await"
    /\ aiOp' = "answerQuery"
    /\ aiArgs' = [relevant |-> relevant, query |-> query, raw |-> "undefined"]
    /\ IF query \in {"", "non-string"} \/ relevant.t = "null"
       THEN AiThrows /\ aiCalls' = << >> /\ aiFailed' = {}
       ELSE ContinueChain(1, << >>, {},
                          fallbackAnswerFromSnippets(evidenceOf(relevant), query))
    /\ UNCHANGED <<aiKeys, limiterVars, requestVars, storeVars, sVars, xVars>>

AnswerQuerySettlesNoCatch(o) ==
    /\ aiOp = "answerQuery"
    /\ aiPc = "await"
    /\ LET p == Providers[aiCaller]
           relevant == evidenceOf(aiArgs.relevant)
           a == answerFromProvider(p, callProvider(p, p \in aiKeys, o), relevant)
       IN IF a.failed
          THEN AiThrows /\ aiFailed' = aiFailed \cup {p} /\ UNCHANGED aiCalls
          ELSE /\ aiPc' = "returned"
               /\ aiResult' = a.result
               /\ UNCHANGED <<aiCaller, aiCalls, aiFailed>>
    /\ UNCHANGED <<aiKeys, aiOp, aiArgs, limiterVars, requestVars, storeVars, sVars, xVars>>

\* the awaited provider call of answerQuery settles (lines 378-413)
AnswerQuerySettles(o) ==
    /\ aiOp = "answerQuery"
    /\ aiPc = "await"
    /\ LET p == Providers[aiCaller]
           relevant == evidenceOf(aiArgs.relevant)
           a == answerFromProvider(p, callProvider(p, p \in aiKeys, o), relevant)
       IN IF a.failed
          THEN ContinueChain(aiCaller + 1, aiCalls, aiFailed \cup {p},
                             fallbackAnswerFromSnippets(relevant, aiArgs.query))
          ELSE /\ aiPc' = "returned"
               /\ aiResult' = a.result
               /\ UNCHANGED <<aiCaller, aiCalls, aiFailed>>
    /\ UNCHANGED <<aiKeys, aiOp, aiArgs, limiterVars, requestVars, storeVars, sVars, xVars>>

\* summarizeForPdf(rawFindings) up to its first await (lines 304-327);
\* rawFindings.seo on null throws
SummarizeForPdfCall(raw) ==
    /\ aiPc # "await"
    /\ aiOp' = "summarizeForPdf"
    /\ aiArgs' = [NoAiArgs EXCEPT !.raw = raw]
    /\ IF raw = "null"
       THEN AiThrows /\ aiCalls' = << >> /\ aiFailed' = {}
       ELSE ContinueChain(1, << >>, {}, summaryFallback)
    /\ UNCHANGED <<aiKeys, limiterVars, requestVars, storeVars, sVars, xVars>>

\* the awaited provider call of summarizeForPdf settles (lines 327-353)
SummarizeForPdfSettles(o) ==
    /\ aiOp = "summarizeForPdf"
    /\ aiPc = "await"
    /\ LET p == Providers[aiCaller]
           a == summaryFromProvider(p, callProvider(p, p \in aiKeys, o))
       IN IF a.failed
          THEN ContinueChain(aiCaller + 1, aiCalls, aiFailed \cup {p}, summaryFallback)
          ELSE /\ aiPc' = "returned"
               /\ aiResult' = a.result
               /\ UNCHANGED <<aiCaller, aiCalls, aiFailed>>
    /\ UNCHANGED <<aiKeys, aiOp, aiArgs, limiterVars, requestVars, storeVars, sVars, xVars>>

InitAiSpec ==
    /\ InitLimiters
    /\ route = "run-audit"
    /\ InitRequest
    /\ nextId = 0
    /\ auditsFile = NoFile
    /\ aiKeys \in SUBSET ProviderNames
    /\ InitAi
    /\ sFile = Store("absent", << >>)
    /\ sSide = NoSide
    /\ InitStoreIdle

NextAi ==
    \/ \E relevant \in [t : {"object"}, n : 0..MaxKeys,
                         feats : SUBSET {"broken", "lcp", "headers", "meta"}]
                        \cup [t : {"null", "undefined"}, n : {0}, feats : {{}}],
          query \in {"what is wrong?", "", "non-string"} :
          AnswerQueryCall(relevant, query)
    \/ \E o \in ProviderOutcomes : AnswerQuerySettles(o)
    \/ \E raw \in {"object", "undefined", "null"} : SummarizeForPdfCall(raw)
    \/ \E o \in ProviderOutcomes : SummarizeForPdfSettles(o)

SpecAi == InitAiSpec /\ [][NextAi]_vars

\* ------------------------------------------------------------------------
\* The store model.  JavaScript runs one handler at a time between awaits,
\* so the save of run-audit (lines 171-186, no await) is not interleaved
\* with other handler code; fs.promises.readFile of a lookup runs on the
\* thread pool and can read the file while fs.writeFileSync (open with
\* truncation, write, close) is at work on it.
\* ------------------------------------------------------------------------
InFlight == {r \in Slots : sReq[r].pc = "analyzers"}

\* a run-audit request is admitted and waits for its analyzers (lines 76-141)
BeginAudit(r, u, d) ==
    /\ sWriter = "none"
    /\ sReq[r].pc \in {"idle", "done"}
    /\ sUuids + Cardinality(InFlight) < MaxRecords
    /\ sReq' = [q \in Slots |->
                  IF q = r THEN [pc |-> "analyzers", rec |-> Record(NoValue, NoValue, u, d),
                                 status |-> 0, overlap |-> InFlight # {}]
                  ELSE IF sReq[q].pc = "analyzers" THEN [sReq[q] EXCEPT !.overlap = TRUE]
                  ELSE sReq[q]]
    /\ UNCHANGED <<sFile, sSide, sUuids, sWriter, sPending, sAnswered, sLookup>>
    /\ UNCHANGED <<limiterVars, requestVars, storeVars, aiVars, xVars>>

\* lines 171-183 up to the open of the file by fs.writeFileSync, which
\* truncates it
SaveOpen(r) ==
    /\ sWriter = "none"
    /\ sReq[r].pc = "analyzers"
    /\ LET id == randomUUID(sUuids + 1)
           e == [sReq[r].rec EXCEPT !.key = id]
       IN /\ sUuids' = sUuids + 1
          /\ sReq' = [sReq EXCEPT ![r].rec = e, ![r].pc = "writing"]
          /\ sPending' = putRecord(existingRecords(sFile), e)
    /\ sFile' = Store("empty", << >>)
    /\ sWriter' = r
    /\ UNCHANGED <<sSide, sAnswered, sLookup>>
    /\ UNCHANGED <<limiterVars, requestVars, storeVars, aiVars, xVars>>

\* fs.writeFileSync has written a part of the text
SaveChunk(r) ==
    /\ sWriter = r
    /\ sFile.state = "empty"
    /\ sFile' = Store("partial", << >>)
    /\ UNCHANGED <<sSide, sUuids, sReq, sWriter, sPending, sAnswered, sLookup>>
    /\ UNCHANGED <<limiterVars, requestVars, storeVars, aiVars, xVars>>

\* fs.writeFileSync returns and the handler answers 200 (lines 184-186)
SaveClose(r) ==
    /\ sWriter = r
    /\ sFile' = Store("json", sPending)
    /\ sWriter' = "none"
    /\ sPending' = << >>
    /\ sReq' = [sReq EXCEPT ![r].pc = "done", ![r].status = 200]
    /\ sAnswered' = sAnswered \cup {sReq[r].rec}
    /\ UNCHANGED <<sSide, sUuids, sLookup>>
    /\ UNCHANGED <<limiterVars, requestVars, storeVars, aiVars, xVars>>

LookupIds ==
    {Uuids[i] : i \in 1..Len(Uuids)}
    \cup {"https://example.com", "example.com", "shop", "site-1", "no-such-id"}

\* findAuditByIdOrSite(id) up to the await of fs.promises.readFile: a
\* missing audits.json is seen at once (fs.existsSync)
LookupCall(id) ==
    /\ sWriter = "none"
    /\ sLookup.pc # "reading"
    /\ IF sFile.state = "absent"
       THEN sLookup' = [pc |-> "done", id |-> id, read |-> sFile, torn |-> FALSE,
                        known |-> sAnswered,
                        result |-> findAuditByIdOrSite(loadAllAuditsJson(sFile), id, sSide)]
       ELSE sLookup' = [pc |-> "reading", id |-> id, read |-> Store("absent", << >>), torn |-> FALSE,
                        known |-> {}, result |-> NotFound]
    /\ UNCHANGED <<sFile, sSide, sUuids, sReq, sWriter, sPending, sAnswered>>
    /\ UNCHANGED <<limiterVars, requestVars, storeVars, aiVars, xVars>>

\* the read settles with what the file holds at that moment, and the rest
\* of findAuditByIdOrSite runs on it (the reads of the per-record files do
\* not depend on audits.json)
LookupRead ==
    /\ sLookup.pc = "reading"
    /\ sLookup' = [pc |-> "done", id |-> sLookup.id, read |-> sFile,
                   torn |-> sWriter # "none", known |-> sAnswered,
                   result |-> findAuditByIdOrSite(loadAllAuditsJson(sFile), sLookup.id, sSide)]
    /\ UNCHANGED <<sFile, sSide, sUuids, sReq, sWriter, sPending, sAnswered>>
    /\ UNCHANGED <<limiterVars, requestVars, storeVars, aiVars, xVars>>

InitStoreSpec ==
    /\ InitLimiters
    /\ route = "run-audit"
    /\ InitRequest
    /\ nextId = 0
    /\ auditsFile = NoFile
    /\ aiKeys = {}
    /\ InitAi
    /\ sFile = Store("absent", << >>)
    /\ sSide = NoSide
    /\ InitStoreIdle

NextStore ==
    \/ \E r \in Slots, u \in {Urls.a, Urls.b}, d \in {"d1", "d2"} : BeginAudit(r, u, d)
    \/ \E r \in Slots : SaveOpen(r)
    \/ \E r \in Slots : SaveChunk(r)
    \/ \E r \in Slots : SaveClose(r)
    \/ \E id \in LookupIds : LookupCall(id)
    \/ LookupRead

SpecStore == InitStoreSpec /\ [][NextStore]_vars

\* ------------------------------------------------------------------------
\* findAuditByIdOrSite over every store of up to MaxRecords records
\* ------------------------------------------------------------------------
\* the stores: the i-th record is stored under the i-th identifier
InitLookupSpec ==
    LET Metas == [siteId : {NoValue, "site-1"}, url : {Urls.a, Urls.b, Urls.c, Urls.none}]
        StoreContents ==
            UNION { { [i \in 1..n |-> Record(Uuids[i], m[i].siteId, m[i].url, "d1")] :
                        m \in [1..n -> Metas] } : n \in 0..MaxRecords }
    IN /\ InitLimiters
       /\ route = "run-audit"
       /\ InitRequest
       /\ nextId = 0
       /\ auditsFile = NoFile
       /\ aiKeys = {}
       /\ InitAi
       /\ sFile \in {Store("absent", << >>), Store("partial", << >>)}
                      \cup {Store("json", c) : c \in StoreContents}
       /\ sSide \in [perFile : SideStates, storage : {"absent", "json"}]
       /\ InitStoreIdle

NextLookup ==
    \/ \E id \in LookupIds : LookupCall(id)
    \/ LookupRead

SpecLookup == InitLookupSpec /\ [][NextLookup]_vars

\* ------------------------------------------------------------------------
\* The save of run-audit over every content that data/audits.json may have
\* before it: absent, not parseable, or an object of fewer than MaxRecords
\* records, whose keys are the identifiers handed out so far
\* ------------------------------------------------------------------------
InitSaveSpec ==
    LET Metas == [siteId : {NoValue, "site-1"}, url : {Urls.a, Urls.b, Urls.c, Urls.none}]
        StoreContents ==
            UNION { { [i \in 1..n |-> Record(Uuids[i], m[i].siteId, m[i].url, "d0")] :
                        m \in [1..n -> Metas] } : n \in 0..(MaxRecords - 1) }
    IN /\ InitLimiters
       /\ route = "run-audit"
       /\ InitRequest
       /\ nextId = 0
       /\ auditsFile = NoFile
       /\ aiKeys = {}
       /\ InitAi
       /\ sFile \in {Store("absent", << >>), Store("partial", << >>)}
                      \cup {Store("json", c) : c \in StoreContents}
       /\ sSide = NoSide
       /\ sUuids = Len(sFile.audits)
       /\ sReq = [r \in Slots |-> IdleSlot]
       /\ sWriter = "none"
       /\ sPending = << >>
       /\ sAnswered = {}
       /\ sLookup = NoLookup
       /\ chat = NoChat
       /\ storage = NoStorage
       /\ sweep = NoSweep

NextSave ==
    \/ \E r \in Slots, u \in {Urls.a, Urls.b}, d \in {"d1", "d2"} : BeginAudit(r, u, d)
    \/ \E r \in Slots : SaveOpen(r)
    \/ \E r \in Slots : SaveChunk(r)
    \/ \E r \in Slots : SaveClose(r)

SpecSave == InitSaveSpec /\ [][NextSave]_vars

\* ------------------------------------------------------------------------
\* lib/storage.js: saveAudit and getAudit.  fs.promises.writeFile opens the
\* temporary file with truncation and writes on the thread pool, so the file
\* operations of two calls in flight interleave.
\* ------------------------------------------------------------------------
StorageInFlight == {c \in Slots : storage.calls[c].pc \in {"open", "written"}}

\* saveAudit(siteId, jsonObj) up to the open of the temporary file by
\* writeFile (lines 29-35): the file `file + ".tmp"` is created or truncated.
\* `moved` tells that the file the call has open was renamed meanwhile.
SaveAuditOpen(c, siteId, d) ==
    /\ storage.calls[c].pc \in {"idle", "done", "failed"}
    /\ storage.saves < MaxSaves
    /\ storage' = [storage EXCEPT !.calls[c] = [pc |-> "open", siteId |-> siteId,
                                      data |-> <<"json", siteId, d>>, moved |-> FALSE],
                        !.tmp[safeName(siteId)] = <<"empty">>,
                        !.saves = @ + 1,
                        !.overlapped = @ \/ StorageInFlight # {}]
    /\ UNCHANGED <<limiterVars, requestVars, storeVars, aiVars, sVars, chat, sweep>>

\* writeFile has written the text through its descriptor and resolves
\* (line 35); texts of equal length, so the later write replaces the earlier
SaveAuditWritten(c) ==
    /\ storage.calls[c].pc = "open"
    /\ LET n == safeName(storage.calls[c].siteId)
       IN storage' = IF storage.calls[c].moved
                     THEN [storage EXCEPT !.calls[c].pc = "written",
                                          !.file[n] = storage.calls[c].data]
                     ELSE [storage EXCEPT !.calls[c].pc = "written",
                                          !.tmp[n] = storage.calls[c].data]
    /\ UNCHANGED <<limiterVars, requestVars, storeVars, aiVars, sVars, chat, sweep>>

\* fs.promises.rename(tmp, file) settles (lines 36-37): the temporary file
\* becomes the file, or the call rejects because there is no such file
SaveAuditRename(c) ==
    /\ storage.calls[c].pc = "written"
    /\ LET n == safeName(storage.calls[c].siteId)
       IN storage' = IF storage.tmp[n] = <<"absent">>
                THEN [storage EXCEPT !.calls[c].pc = "failed"]
                ELSE [storage EXCEPT
                        !.calls = [k \in Slots |->
                            IF k = c THEN [@[k] EXCEPT !.pc = "done"]
                            ELSE IF @[k].pc = "open" /\ safeName(@[k].siteId) = n
                                 THEN [@[k] EXCEPT !.moved = TRUE]
                                 ELSE @[k]],
                        !.file[n] = storage.tmp[n],
                        !.tmp[n] = <<"absent">>,
                        !.saved[storage.calls[c].siteId] = storage.calls[c].data]
    /\ UNCHANGED <<limiterVars, requestVars, storeVars, aiVars, sVars, chat, sweep>>

\* getAudit(siteId) (lines 19-27), called while no save is in flight: null
\* for a missing file, an error for a text that JSON.parse rejects
GetAudit(siteId) ==
    /\ StorageInFlight = {}
    /\ LET content == storage.file[safeName(siteId)]
       IN storage' = [storage EXCEPT !.got = [pc |-> "done", siteId |-> siteId,
                                   result |-> CASE content = <<"absent">> -> <<"null">>
                                                [] content = <<"empty">> -> <<"threw">>
                                                [] OTHER -> content]]
    /\ UNCHANGED <<limiterVars, requestVars, storeVars, aiVars, sVars, chat, sweep>>

NextStorage ==
    \/ \E c \in Slots, siteId \in SiteIds, d \in 1..MaxSaves : SaveAuditOpen(c, siteId, d)
    \/ \E c \in Slots : SaveAuditWritten(c)
    \/ \E c \in Slots : SaveAuditRename(c)
    \/ \E siteId \in SiteIds : GetAudit(siteId)

\* data/audits starts empty
SpecStorage == Init /\ [][NextStorage]_vars

\* ------------------------------------------------------------------------
\* lib/seo.js: the internal-link sweep of analyzeSEO (lines 81-116)
\* ------------------------------------------------------------------------
\* analyzeSEO(targetUrl, fetcher, opts) on a page with the given anchors, from
\* line 47 (maxLinks = opts.maxLinks || 20; 0 stands for no opts.maxLinks, as
\* in run-audit) to line 96: the links are collected and links.map(async ...)
\* runs every callback up to its first await, so one HEAD request per link is
\* in flight
SweepStart(anchors, optsMaxLinks) ==
    /\ sweep.pc = "idle"
    /\ LET maxLinks == IF optsMaxLinks # 0 THEN optsMaxLinks ELSE 20
           links == collectLinks(anchors, Len(anchors),
                                 [origin |-> "self", path |-> "/"], maxLinks)
           \* no request settled yet
           NoWorld == [net |-> "none", status |-> 0, ct |-> FALSE, body |-> "ok"]
           NoFetch == [threw |-> FALSE, ok |-> FALSE, status |-> 0, text |-> "none"]
       IN sweep' = [sweep EXCEPT
                      !.pc = "checks",
                      !.maxLinks = maxLinks,
                      !.links = links,
                      !.checks = [i \in 1..Len(links) |->
                                    [pc |-> "head", sent |-> <<"HEAD">>,
                                     headWorld |-> NoWorld, head |-> NoFetch,
                                     world |-> NoWorld, res |-> NoFetch]]]
    /\ UNCHANGED <<limiterVars, requestVars, storeVars, aiVars, sVars, chat, storage>>

brokenEntryHttpOnly(lnk, res) ==
    IF res.threw THEN << >>
    ELSE IF res.status < 200 \/ res.status >= 400 THEN <<[url |-> lnk, status |-> "http"]>>
    ELSE << >>

\* the entry the callback pushes on `broken` for a settled result (lines
\* 104-109), if any
brokenEntry(lnk, res) ==
    IF res.threw THEN <<[url |-> lnk, status |-> "error"]>>
    ELSE IF res.status < 200 \/ res.status >= 400 THEN <<[url |-> lnk, status |-> "http"]>>
    ELSE << >>

\* the HEAD request of link i settles (lines 99-109): on 405 or 501 the GET
\* request is issued, otherwise the link is settled with this result
HeadSettles(i, w) ==
    /\ sweep.pc = "checks"
    /\ i \in 1..Len(sweep.checks)
    /\ sweep.checks[i].pc = "head"
    /\ LET res == fetchWithTimeout(w)
       IN sweep' = IF ~res.threw /\ res.status \in {405, 501}
                   THEN [sweep EXCEPT !.checks[i] =
                           [@ EXCEPT !.pc = "get", !.sent = Append(@, "GET"),
                                     !.headWorld = w, !.head = res]]
                   ELSE [sweep EXCEPT !.checks[i] =
                           [@ EXCEPT !.pc = "settled", !.headWorld = w, !.head = res,
                                     !.world = w, !.res = res],
                                      !.broken = @ \o brokenEntry(sweep.links[i], res)]
    /\ UNCHANGED <<limiterVars, requestVars, storeVars, aiVars, sVars, chat, storage>>

\* the GET request of link i settles (lines 102-109)
GetSettles(i, w) ==
    /\ sweep.pc = "checks"
    /\ i \in 1..Len(sweep.checks)
    /\ sweep.checks[i].pc = "get"
    /\ LET res == fetchWithTimeout(w)
       IN sweep' = [sweep EXCEPT !.checks[i] = [@ EXCEPT !.pc = "settled", !.world = w, !.res = res],
                                 !.broken = @ \o brokenEntry(sweep.links[i], res)]
    /\ UNCHANGED <<limiterVars, requestVars, storeVars, aiVars, sVars, chat, storage>>

\* Promise.all(headChecks) resolves (lines 113-115)
SweepDone ==
    /\ sweep.pc = "checks"
    /\ \A i \in 1..Len(sweep.checks) : sweep.checks[i].pc = "settled"
    /\ sweep' = [sweep EXCEPT !.pc = "done", !.brokenLinks = sweep.broken]
    /\ UNCHANGED <<limiterVars, requestVars, storeVars, aiVars, sVars, chat, storage>>

\* the pages have up to MaxAnchors anchors
NextSweep ==
    \/ \E n \in 0..MaxAnchors, optsMaxLinks \in {0, 1, 2} :
         \E anchors \in [1..n -> [origin : {"self"}, path : {"/p1", "/p2"}]
                                  \cup [origin : {"relative", "other"}, path : {"/p1"}]
                                  \cup [origin : {"invalid"}, path : {""}]] :
            SweepStart(anchors, optsMaxLinks)
    \/ \E i \in 1..MaxAnchors, w \in FetchWorlds : HeadSettles(i, w)
    \/ \E i \in 1..MaxAnchors, w \in FetchWorlds : GetSettles(i, w)
    \/ SweepDone

SpecSweep == Init /\ [][NextSweep]_vars

\* ------------------------------------------------------------------------
\* chat-analyst.js: handler.  One request at a time; the store is at rest.
\* ------------------------------------------------------------------------
\* selectRelevantSnippets(audit, keywords, 8000) as answerQuery sees it: the
\* number of keys of the result and the patterns its text matches.  A
\* function or Object.prototype has no keys of its own and none of summary,
\* seo, performance; for an audit whose text holds none of the keywords the
\* result is built from seo.findings and performance (lines 126-133).
selectRelevantSnippets(rec, query) ==
    IF rec.data = "inherited" THEN [t |-> "object", n |-> 0, feats |-> {}]
    ELSE IF query = "what is wrong?" THEN [t |-> "object", n |-> 3, feats |-> {"meta", "headers"}]
    ELSE [t |-> "object", n |-> 2, feats |-> {}]

ChatRespond(st, keys) == [chat EXCEPT !.pc = "done", !.status = st, !.fields = keys]

\* the handler up to the await of findAuditByIdOrSite (lines 138-167).
\* b.kind: "object", or "unparseable" (a string that JSON.parse rejects)
ChatReceive(m, b) ==
    /\ chat.pc \in {"idle", "done"}
    /\ chatLimiter["ipA"].count < CHAT_RATE_MAX + MaxOver
    /\ LET rl == rateLimitChat(chatLimiter["ipA"], now)
           id == IF b.auditId # NoValue THEN b.auditId
                 ELSE IF b.siteId # NoValue THEN b.siteId ELSE ""
           req == [NoChat EXCEPT !.method = m]
           fail(st) == [req EXCEPT !.pc = "done", !.status = st, !.fields = {"error"}]
       IN IF m # "POST"
          THEN chat' = fail(405) /\ UNCHANGED chatLimiter
          ELSE /\ chatLimiter' = [chatLimiter EXCEPT !["ipA"] = rl.rec]
               /\ chat' =
                     IF ~rl.allowed THEN fail(429)
                     ELSE IF b.kind = "unparseable" THEN fail(400)
                     ELSE IF b.query \in {NoValue, "", "non-string", "a"} THEN fail(400)
                     ELSE IF id = "" THEN fail(400)
                     ELSE [req EXCEPT !.pc = "lookup", !.admitted = TRUE,
                                      !.query = b.query, !.id = id]
    /\ aiOp' = "none" /\ aiPc' = "idle" /\ aiArgs' = NoAiArgs /\ aiCaller' = 0
    /\ aiCalls' = << >> /\ aiFailed' = {} /\ aiResult' = NoAiResult
    /\ UNCHANGED <<now, route, limiter, rateLimiter, chartLimiter, last, admitted,
                   requestVars, storeVars, aiKeys, sVars, storage, sweep>>

\* findAuditByIdOrSite settles (lines 165-184): 404, or the evidence is
\* selected and the handler awaits the import of lib/ai.js
ChatLookupDone ==
    /\ chat.pc = "lookup"
    /\ LET found == findAuditByIdOrSite(loadAllAuditsJson(sFile), chat.id, sSide)
       IN chat' = IF found = NotFound THEN ChatRespond(404, {"error"})
                  ELSE [chat EXCEPT !.pc = "import", !.found = found,
                                    !.relevant = selectRelevantSnippets(found.rec, chat.query)]
    /\ UNCHANGED <<limiterVars, requestVars, storeVars, aiVars, sVars, storage, sweep>>

ChatImportedNoFallback(loaded) ==
    /\ chat.pc = "import"
    /\ chat' = IF loaded THEN [chat EXCEPT !.pc = "ai"] ELSE ChatRespond(500, {"error"})
    /\ UNCHANGED <<limiterVars, requestVars, storeVars, aiVars, sVars, storage, sweep>>

\* the import settles (lines 180-197): without the module the handler
\* answers from the evidence, with it the handler calls answerQuery
ChatImported(loaded) ==
    /\ chat.pc = "import"
    /\ chat' = IF loaded THEN [chat EXCEPT !.pc = "ai"] ELSE ChatRespond(200, AnswerKeys)
    /\ UNCHANGED <<limiterVars, requestVars, storeVars, aiVars, sVars, storage, sweep>>

\* the call answerQuery(relevant, query, {limit}) of line 200
ChatCallsAnswerQuery ==
    /\ chat.pc = "ai"
    /\ aiOp = "none"
    /\ AnswerQueryCall(chat.relevant, chat.query)

\* answerQuery settles (lines 200-211)
ChatAnswer ==
    /\ chat.pc = "ai"
    /\ aiOp = "answerQuery"
    /\ aiPc \in {"returned", "threw"}
    /\ chat' = IF aiPc = "returned" THEN ChatRespond(200, AnswerKeys)
               ELSE ChatRespond(500, {"error"})
    /\ UNCHANGED <<limiterVars, requestVars, storeVars, aiVars, sVars, storage, sweep>>

InitChatSpec ==
    /\ InitLimiters
    /\ route = "chat-analyst"
    /\ InitRequest
    /\ nextId = 0
    /\ auditsFile = NoFile
    /\ aiKeys \in {{}, {"gemini"}, ProviderNames}
    /\ InitAi
    /\ sFile \in {Store("absent", << >>), Store("partial", << >>),
                   Store("json", <<Record(Uuids[1], "site-1", Urls.a, "d1")>>)}
    /\ sSide \in [perFile : SideStates, storage : {"absent", "json"}]
    /\ InitStoreIdle

NextChat ==
    \/ \E m \in {"GET", "POST"} :
          ChatReceive(m, [kind |-> "unparseable", query |-> NoValue, auditId |-> NoValue,
                          siteId |-> NoValue])
    \/ \E q \in {NoValue, "a", "what is wrong?", "zz"},
          a \in {NoValue, Uuids[1], "example.com", "constructor", "no-such-id"},
          si \in {NoValue, "site-1"} :
          ChatReceive("POST", [kind |-> "object", query |-> q, auditId |-> a, siteId |-> si])
    \/ ChatLookupDone
    \/ \E loaded \in BOOLEAN : ChatImported(loaded)
    \/ ChatCallsAnswerQuery
    \/ \E o \in ProviderOutcomes : AnswerQuerySettles(o)
    \/ ChatAnswer

SpecChat == InitChatSpec /\ [][NextChat]_vars

\* ========================================================================
\* Properties
\* ========================================================================
SsrfMessage == "URL resolves to a private or disallowed IP"

\* the classes of addresses that the specification disallows
DisallowedClasses == {"private", "loopback", "linkLocal", "uniqueLocal", "carrierGradeNat"}
DisallowedIPv4Classes == {"private", "loopback", "linkLocal", "carrierGradeNat"}

AnswerHasDisallowed ==
    /\ dns.state = "answered"
    /\ \E a \in dns.addrs : a.range \in DisallowedClasses

AnswerAllPublic ==
    /\ dns.state = "answered"
    /\ dns.addrs # {}
    /\ \A a \in dns.addrs : a.range = "unicast"

\* C1: a DNS answer with at least one address in a disallowed range makes
\* isPrivateAddress true and the response a 400, whatever public addresses it
\* also holds and in whatever order; an answer of public addresses only
\* makes it false and the audit goes on to the analyzers.
C1_AnyDisallowedAddressRejects ==
    /\ AnswerHasDisallowed => (pc = "done" /\ status = 400 /\ errorMsg = SsrfMessage)
    /\ AnswerAllPublic => (pc = "seo" /\ status = 0)

C1_Witness ==
    /\ pc = "done" /\ status = 400 /\ errorMsg = SsrfMessage
    /\ \E a \in dns.addrs : a.range = "unicast"
    /\ \E a \in dns.addrs : a.range = "uniqueLocal"

\* C2: an answer holding an IPv4-mapped IPv6 address whose IPv4 address is
\* private, loopback, link-local or carrier-grade NAT is rejected with 400,
\* as an answer holding that IPv4 address is.
C2_MappedAddressClassifiedAsIPv4 ==
    (/\ pc \in {"seo", "done"}
     /\ dns.state = "answered"
     /\ \E a \in dns.addrs :
           /\ isIPv4MappedAddress(a)
           /\ a.v4range \in DisallowedIPv4Classes)
    => (pc = "done" /\ status = 400 /\ errorMsg = SsrfMessage)

\* C3: a request whose hostname resolves to a disallowed address ends with
\* 400 at the SSRF check: for that request no fetch of any kind was issued,
\* no analyzer ran and data/audits.json was not written.
C3_RejectedBeforeAnyFetch ==
    /\ pc = "dns" => (outbound = {"dns"} /\ ~wrote)
    /\ AnswerHasDisallowed =>
          /\ pc = "done" /\ status = 400
          /\ outbound = {"dns"}
          /\ ~wrote /\ auditId = 0
          /\ threw = {} /\ logs = {}
          /\ seoResult = SeoDefault /\ perfResult = PerfDefault
          /\ securityResult = SecurityDefault

C3_Witness ==
    /\ pc = "done" /\ status = 400 /\ errorMsg = SsrfMessage
    /\ dns.addrs = {[kind |-> "ipv4", range |-> "private", v4range |-> NoValue]}
    /\ outbound = {"dns"}
    /\ auditsFile = NoFile

\* C4: when the DNS lookup fails the audit goes on to the analyzers and the
\* handler has logged a warning for the request.
C4_DnsFailureAllowedAndWarned ==
    (dns.state = "failed" /\ pc \in {"seo", "perf", "done"}) =>
        /\ ~(status = 400 /\ errorMsg = SsrfMessage)
        /\ "[SSRF Check Warning]" \in logs

\* C5: a POST that passed the limiter and whose url is missing, not a
\* string, too long, malformed or not http(s) is answered with 400 and makes
\* no DNS lookup, no fetch and no write of the store.
UrlIsAcceptable(v) ==
    /\ v.t = "string"
    /\ v.raw - v.ws > 0
    /\ v.raw - v.ws <= MAX_URL_LENGTH
    /\ v.syntax = "ok"
    /\ v.proto \in {"http:", "https:"}

C5_InvalidUrlIs400 ==
    (/\ pc = "done" /\ method = "POST" /\ status # 429
     /\ body.kind = "object" /\ ~UrlIsAcceptable(body.url))
    => (status = 400 /\ dns = NoDns /\ outbound = {} /\ ~wrote)

\* ---- the limiters (SpecLimiter) ----
DecisionTaken == last.route # "none"
PostRec == RouteLimiter[last.ip]

\* C6 as stated: max requests per window and identity are admitted, later
\* ones denied; once the window duration has elapsed since windowStart
\* (now - windowStart >= window) the next request is admitted and leaves
\* count = 1 and windowStart = now.
C6_ResetOnceWindowElapsed ==
    DecisionTaken =>
        /\ \A ip \in IPs : admitted[ip] = Min(RouteLimiter[ip].count, RouteMax)
        /\ IF last.pre = NoRec \/ last.at - last.pre.windowStart >= RouteWindow
           THEN last.allowed /\ PostRec = [count |-> 1, windowStart |-> last.at]
           ELSE /\ PostRec = [count |-> last.pre.count + 1, windowStart |-> last.pre.windowStart]
                /\ last.allowed <=> (last.pre.count + 1 <= RouteMax)

\* C6 amended: the window is reset by the first request that arrives more
\* than the window duration after windowStart (now - windowStart > window);
\* a request at exactly windowStart + window still counts in the old window.
C6_ResetAfterWindowElapsed ==
    DecisionTaken =>
        /\ \A ip \in IPs : admitted[ip] = Min(RouteLimiter[ip].count, RouteMax)
        /\ IF last.pre = NoRec \/ last.at - last.pre.windowStart > RouteWindow
           THEN last.allowed /\ PostRec = [count |-> 1, windowStart |-> last.at]
           ELSE /\ PostRec = [count |-> last.pre.count + 1, windowStart |-> last.pre.windowStart]
                /\ last.allowed <=> (last.pre.count + 1 <= RouteMax)

C6_Witness ==
    /\ DecisionTaken
    /\ last.pre.count > RouteMax
    /\ last.at - last.pre.windowStart > RouteWindow
    /\ last.allowed
    /\ PostRec = [count |-> 1, windowStart |-> last.at]

\* C7: every denial carries Retry-After = ceil((windowStart + window - now)
\* / 1000), the time left in the identity's window, in seconds.
C7_RetryAfterIsRemainingTime ==
    (DecisionTaken /\ ~last.allowed) =>
        last.retryAfter = Ceil1000(last.pre.windowStart + RouteWindow - last.at)

\* ---- the analyzers (Spec) ----
\* C8: when analyzePerformance throws, the handler does not raise because of
\* it: it answers 200 (unless the write of the store fails), with the SEO and
\* security sections as their analyzers computed them and a performance
\* section with no findings and score 0.
C8_PerformanceFailureIsolated ==
    (pc = "done" /\ "perf" \in threw) =>
        /\ status = 200 \/ (status = 500 /\ errorMsg = "write failed")
        /\ status = 200 =>
              /\ auditData.performance.findings = << >>
              /\ auditData.performance.score = 0
              /\ auditData.seo.findings = seoResult.seo.findings
              /\ auditData.seo.score = seoResult.seo.scoreEstimate
              /\ auditData.security.findings = securityResult.findings
              /\ auditData.security.headers = securityResult.headers

C8_Witness ==
    /\ pc = "done" /\ status = 200 /\ threw = {"perf"}
    /\ auditData.performance.score = 0
    /\ Len(auditData.seo.findings) > 0
    /\ Len(auditData.security.findings) > 0

\* C9: whichever analyzer throws, its section of the audit has no findings
\* and score 0, and the request still ends with 200 (unless the write of the
\* store fails).
C9_FailedAnalyzerSectionIsZero ==
    (pc = "done" /\ threw # {}) =>
        /\ status = 200 \/ (status = 500 /\ errorMsg = "write failed")
        /\ status = 200 =>
              /\ "seo" \in threw =>
                    (auditData.seo.findings = << >> /\ auditData.seo.score = 0)
              /\ "perf" \in threw =>
                    (auditData.performance.findings = << >> /\ auditData.performance.score = 0)
              /\ "security" \in threw =>
                    (auditData.security.findings = << >> /\ auditData.security.score = 0)

\* C10: performance.score is the rounded average of the mobile and desktop
\* perfScore when both are numbers, the one that is a number when only one
\* is, and 0 when neither is.
ScorePresent(x) == x.t = "object" /\ x.perfScore.t = "number"

ExpectedPerformanceScore(m, d) ==
    IF ScorePresent(m) /\ ScorePresent(d) THEN RoundHalf(m.perfScore.n + d.perfScore.n)
    ELSE IF ScorePresent(m) THEN m.perfScore.n
    ELSE IF ScorePresent(d) THEN d.perfScore.n
    ELSE 0

C10_PerformanceScoreIsAverageOrPresent ==
    (pc = "done" /\ status = 200) =>
        auditData.performance.score =
            ExpectedPerformanceScore(perfResult.mobile, perfResult.desktop)

\* C11 as stated: security.score = max(0, 100 - 8*k), k the number of
\* findings of the security section, an integer in 0..100; and for an https
\* target every finding counted in k is a missing-security-header finding.
MissingHeaderFindings ==
    {"Missing HSTS", "Missing Content-Security-Policy", "Missing X-Frame-Options",
     "Missing Referrer-Policy"}

FindingsIn(fs, titles) == Cardinality({i \in 1..Len(fs) : fs[i] \in titles})

C16_AiSummaryNonEmpty ==
    (pc = "done" /\ status = 200) =>
        /\ auditData.aiSummary.summary \notin {NoValue, ""}
        /\ aiSummary = auditData.aiSummary
        /\ wrote /\ auditId \in auditsFile.audits

C16_Witness ==
    /\ pc = "done" /\ status = 200 /\ wrote
    /\ auditData.aiSummary.summary = "No AI summary produced"
    /\ "[AI Summary Error]" \in logs

\* ---- the provider chain of lib/ai.js (SpecAi) ----
AiFinished == aiPc \in {"returned", "threw"}
ValidAnswerCall ==
    /\ aiOp = "answerQuery"
    /\ aiArgs.query \notin {"", "non-string"}
    /\ aiArgs.relevant.t # "null"

\* the keys of the evidence map handed to the call
EvidenceKeys == 1..evidenceOf(aiArgs.relevant).n

Pos(p) == CHOOSE i \in 1..Len(Providers) : Providers[i] = p

\* C12: an answerQuery call with a non-empty string query and an evidence map
\* never throws: whatever the providers do it ends by returning a response
\* object with the fields answer, citations, suggestedActions and urgency.
C12_AnswerQueryNeverThrows ==
    ValidAnswerCall =>
        /\ aiPc # "threw"
        /\ aiPc = "returned" => (aiResult.t = "object" /\ aiResult.keys = AnswerKeys)

C12_Witness ==
    /\ ValidAnswerCall /\ aiPc = "returned"
    /\ aiKeys = ProviderNames /\ aiFailed = ProviderNames
    /\ aiResult.via = "fallback"

\* C13: with no provider credential configured, the result of a valid
\* answerQuery call has a non-empty answer, an urgency among Low, Medium and
\* High, and citations whose sections are all keys of the evidence map.
C13_FallbackCitesOnlyEvidenceKeys ==
    (ValidAnswerCall /\ aiKeys = {} /\ AiFinished) =>
        /\ aiPc = "returned"
        /\ aiResult.answer \notin {"", NoValue}
        /\ aiResult.urgency \in {"Low", "Medium", "High"}
        /\ aiResult.citations \subseteq EvidenceKeys

C13_Witness ==
    /\ ValidAnswerCall /\ aiKeys = {} /\ aiPc = "returned"
    /\ aiArgs.relevant.n = 7
    /\ aiResult.citations = 1..6
    /\ aiResult.urgency = "Medium"

\* C14: in one call the providers are invoked in the order OpenAI, Gemini,
\* DeepSeek, each at most once and only when its credential is configured and
\* every enabled provider before it has failed in this call; a provider's
\* success ends the call with its result, and the fallback is returned only
\* when every enabled provider has failed (or none is enabled).
C14_FailoverInFixedOrder ==
    /\ \A i \in 1..Len(aiCalls) : aiCalls[i] \in aiKeys
    /\ \A i, j \in 1..Len(aiCalls) : i < j => Pos(aiCalls[i]) < Pos(aiCalls[j])
    /\ \A i \in 1..Len(aiCalls) :
          \A q \in aiKeys : Pos(q) < Pos(aiCalls[i]) =>
              (q \in aiFailed /\ \E h \in 1..(i - 1) : aiCalls[h] = q)
    /\ aiFailed \subseteq {aiCalls[i] : i \in 1..Len(aiCalls)}
    /\ aiPc = "await" =>
          (Len(aiCalls) > 0 /\ aiCalls[Len(aiCalls)] \notin aiFailed)
    /\ (aiPc = "returned" /\ aiResult.via # "fallback") =>
          /\ Len(aiCalls) > 0
          /\ aiResult.via = aiCalls[Len(aiCalls)]
          /\ aiResult.via \notin aiFailed
    /\ (aiPc = "returned" /\ aiResult.via = "fallback") =>
          /\ aiFailed = aiKeys
          /\ Len(aiCalls) = Cardinality(aiKeys)

C14_Witness ==
    /\ aiPc = "returned"
    /\ aiKeys = {"openai", "deepseek"}
    /\ aiCalls = <<"openai", "deepseek">>
    /\ aiFailed = {"openai"}
    /\ aiResult.via = "deepseek"

\* C15: a summarizeForPdf call on an audit's findings never throws and
\* resolves to an object with the keys seoMeta, performanceSummary and
\* securitySummary, whatever the providers do.
C15_SummaryHasItsThreeKeys ==
    (aiOp = "summarizeForPdf" /\ aiArgs.raw # "null" /\ AiFinished) =>
        /\ aiPc = "returned"
        /\ aiResult.t = "object"
        /\ SummaryKeys \subseteq aiResult.keys

\* ---- the audit store (SpecStore, SpecLookup) ----
StoredRecords == {sFile.audits[i] : i \in 1..Len(sFile.audits)}

\* C17: a record answered with 200 is in data/audits.json from the moment of
\* the response on and later saves leave it as it is; a lookup of its
\* identifier made after the response (and not during a later write) returns
\* that record.
C17_SavedAuditIsFound ==
    /\ sWriter = "none" => (sFile.state = "json" \/ sAnswered = {})
    /\ sWriter = "none" => sAnswered \subseteq StoredRecords
    /\ (sLookup.pc = "done" /\ ~sLookup.torn) =>
          \A e \in sLookup.known :
              e.key = sLookup.id => (sLookup.result.kind = "key" /\ sLookup.result.rec = e)

C17_Witness ==
    /\ sLookup.pc = "done" /\ ~sLookup.torn
    /\ sLookup.id = "id-1"
    /\ Len(sLookup.read.audits) = 2
    /\ sLookup.result.kind = "key"
    /\ sLookup.result.rec \in sLookup.known

\* C18: two run-audit requests that have both saved and answered hold
\* different identifiers, and the store holds the record of each, however
\* their analyzer phases and saves were interleaved.
C18_ConcurrentSavesKeepBoth ==
    \A r, q \in Slots :
        (r # q /\ sReq[r].pc = "done" /\ sReq[q].pc = "done" /\ sWriter = "none") =>
            /\ sReq[r].rec.key # sReq[q].rec.key
            /\ sReq[r].rec \in StoredRecords
            /\ sReq[q].rec \in StoredRecords

C18_Witness ==
    /\ \A r \in Slots : sReq[r].pc = "done" /\ sReq[r].status = 200 /\ sReq[r].overlap
    /\ sReq["r1"].rec.url = sReq["r2"].rec.url
    /\ Len(sFile.audits) = 2
    /\ sWriter = "none"

\* C19: what a lookup reads from data/audits.json is always a complete
\* content of the store (the one before a save or the one after it), never
\* a truncated or partly written file.
C19_ReadersSeeCompleteStore ==
    sLookup.pc = "done" => sLookup.read.state \in {"absent", "json"}

\* C20: the lookup honours the priority of the match kinds over the whole
\* store: the record under the key id; else a record whose siteId or url
\* equals id, if there is one; else a record whose hostname equals id, if
\* there is one; a record matching by substring only when none matches by
\* equality or hostname; the per-record files only when the scan found
\* nothing.
C20_LookupPriorityAcrossStore ==
    sLookup.pc = "done" =>
        LET recs == IF sLookup.read.state = "json" THEN sLookup.read.audits ELSE << >>
            id == sLookup.id
            res == sLookup.result
            ByKey == {i \in 1..Len(recs) : recs[i].key = id}
            ByEq == {i \in 1..Len(recs) : recs[i].siteId = id \/ recs[i].url.text = id}
            ByHost == {i \in 1..Len(recs) : recs[i].url.valid /\ recs[i].url.host = id}
            BySub == {i \in 1..Len(recs) : recs[i].url.valid /\ id \in recs[i].url.subs}
            Of(S) == {recs[i] : i \in S}
        IN /\ CASE ByKey # {} -> res.kind = "key" /\ res.rec \in Of(ByKey)
                [] ByEq # {} -> res.rec \in Of(ByEq)
                [] ByHost # {} -> res.rec \in Of(ByHost)
                [] BySub # {} -> res.rec \in Of(BySub)
                [] OTHER -> res.kind \in {"perFile", "storage", "none"}
           /\ res.kind \in {"perFile", "storage"} =>
                 (ByKey \cup ByEq \cup ByHost \cup BySub = {})

\* C23: the security section is computed from the response of the content
\* analyzer's main-page fetch: a required header that this response carries
\* is not reported as missing in the audit.
MissingFindingOf ==
    [h \in RequiredHeaders |->
        CASE h = "strict-transport-security" -> "Missing HSTS"
          [] h = "content-security-policy" -> "Missing Content-Security-Policy"
          [] h = "x-frame-options" -> "Missing X-Frame-Options"
          [] OTHER -> "Missing Referrer-Policy"]

C23_PresentHeaderNotReportedMissing ==
    (pc = "done" /\ status = 200 /\ "seo" \notin threw /\ "security" \notin threw) =>
        \A h \in RequiredHeaders \cap seoResult.headers.names :
            \A i \in 1..Len(auditData.security.findings) :
                auditData.security.findings[i] # MissingFindingOf[h]

\* C28 as stated: in the run-audit and chat-analyst limiters a denied request
\* leaves the window start of its identity as it was, and a request that
\* arrives once one window duration has passed since that start
\* (now - windowStart >= window) is admitted, however many requests were
\* denied in between.
C28_DenialsDoNotProlongFromWindowEnd ==
    (DecisionTaken /\ last.route \in {"run-audit", "chat-analyst"}) =>
        /\ ~last.allowed => PostRec.windowStart = last.pre.windowStart
        /\ (last.pre # NoRec /\ last.at - last.pre.windowStart >= RouteWindow) => last.allowed

\* C28 amended: the same, with the identity admitted again by its first
\* request that arrives more than one window duration after the window start
\* (now - windowStart > window); a request at exactly windowStart + window is
\* still denied, and does not move the window start either.
C28_DenialsDoNotProlongPastWindowEnd ==
    (DecisionTaken /\ last.route \in {"run-audit", "chat-analyst"}) =>
        /\ ~last.allowed => PostRec.windowStart = last.pre.windowStart
        /\ (last.pre # NoRec /\ last.at - last.pre.windowStart > RouteWindow) => last.allowed

C28_Witness ==
    /\ DecisionTaken /\ last.route = "chat-analyst"
    /\ last.pre.count = CHAT_RATE_MAX + MaxOver
    /\ last.pre.windowStart = 0
    /\ last.at = CHAT_RATE_WINDOW_MS + 1
    /\ last.allowed

\* ---- chat-analyst (SpecChat) ----
\* some layer of the lookup holds an audit for the identifier of the request:
\* a record of audits.json by key, siteId, url, hostname or substring, the
\* per-record file, or the file of lib/storage
ChatIdMatchesStored ==
    \/ /\ sFile.state = "json"
       /\ \E i \in 1..Len(sFile.audits) :
             sFile.audits[i].key = chat.id \/ matchesRecord(sFile.audits[i], chat.id)
    \/ sSide.perFile = "json"
    \/ sSide.storage = "json"

\* C21: an admitted chat-analyst request with a valid query whose identifier
\* matches no stored audit in any layer of the lookup is answered 404, also
\* when audits.json is missing or unparseable or a per-record file is
\* unreadable.
C21_UnknownIdentifierIs404 ==
    (chat.pc = "done" /\ chat.admitted /\ ~ChatIdMatchesStored) => chat.status = 404

\* C22: an admitted chat-analyst POST with a valid query whose identifier
\* matches a stored audit is answered 200 with the fields answer, citations,
\* suggestedActions and urgency, whatever the providers do and also when
\* lib/ai.js cannot be loaded.
C22_MatchedAuditIsAnswered200 ==
    (chat.pc = "done" /\ chat.admitted /\ ChatIdMatchesStored) =>
        /\ chat.status = 200
        /\ chat.fields = {"answer", "citations", "suggestedActions", "urgency"}

C22_Witness ==
    /\ chat.pc = "done" /\ chat.admitted /\ chat.status = 200
    /\ chat.found.kind = "key"
    /\ aiCalls = Providers /\ aiFailed = ProviderNames
    /\ aiResult.via = "fallback"

\* ---- the save of run-audit (SpecSave) ----
\* what a lookup of id gets from a content of data/audits.json
Retrieved(file, id) == findAuditByIdOrSite(loadAllAuditsJson(file), id, NoSide)

C27_ConcurrentSavesKeepApart ==
    /\ \A c \in Slots : storage.calls[c].pc # "failed"
    /\ \A c1, c2 \in StorageInFlight :
          c1 # c2 => safeName(storage.calls[c1].siteId) # safeName(storage.calls[c2].siteId)
    /\ StorageInFlight = {} =>
          \A x \in SiteIds :
              storage.saved[x] # <<"null">> =>
                  /\ storage.file[safeName(x)][1] = "json"
                  /\ storage.file[safeName(x)][2] = x

\* C30: after saves made one after the other, getAudit(s) gives the record
\* last saved under s, or null when none was, whatever was saved under
\* other site identifiers
C30_SitesDoNotAffectEachOther ==
    (storage.got.pc = "done" /\ ~storage.overlapped) =>
        storage.got.result = storage.saved[storage.got.siteId]

\* C25: the sweep checks at most maxLinks distinct links of the page's own
\* origin; every link gets a HEAD request first and a GET request only after
\* its HEAD returned 405 or 501; a settled link is on the broken list exactly
\* when its last request threw or ended with a status below 200 or of 400 and
\* more; and no more than maxLinks link checks are in flight
C25_LinkSweepBounded ==
    sweep.pc # "idle" =>
        /\ Len(sweep.links) <= sweep.maxLinks
        /\ \A i \in 1..Len(sweep.links) :
              /\ sweep.links[i].origin = "self"
              /\ \A j \in 1..Len(sweep.links) : sweep.links[j] = sweep.links[i] => j = i
              /\ sweep.checks[i].sent \in {<<"HEAD">>, <<"HEAD", "GET">>}
              /\ Len(sweep.checks[i].sent) = 2 =>
                    (~sweep.checks[i].head.threw /\ sweep.checks[i].head.status \in {405, 501})
              /\ sweep.checks[i].pc = "settled" =>
                    ((\E k \in 1..Len(sweep.broken) : sweep.broken[k].url = sweep.links[i])
                       <=> (\/ sweep.checks[i].res.threw
                            \/ sweep.checks[i].res.status < 200
                            \/ sweep.checks[i].res.status >= 400))
        /\ Cardinality({i \in 1..Len(sweep.checks) : sweep.checks[i].pc \in {"head", "get"}})
              <= sweep.maxLinks
        /\ sweep.pc = "done" => sweep.brokenLinks = sweep.broken

\* a finished sweep of as many links as the limit allows, one answered by GET
\* after a 405 to HEAD, the other broken by a request that threw
C25_Witness ==
    /\ sweep.pc = "done"
    /\ Len(sweep.links) = 2 /\ sweep.maxLinks = 2
    /\ sweep.checks[1].sent = <<"HEAD", "GET">>
    /\ sweep.checks[1].head.status = 405 /\ sweep.checks[1].res.status = 200
    /\ sweep.checks[2].res.threw
    /\ sweep.brokenLinks = <<[url |-> sweep.links[2], status |-> "error"]>>

\* the requests made so far in the sweep, each with what it met and what
\* fetchWithTimeout gave to its caller
SweepFetches ==
    {<<sweep.checks[i].headWorld, sweep.checks[i].head>> : i \in 1..Len(sweep.checks)}
    \cup {<<sweep.checks[i].world, sweep.checks[i].res>> : i \in 1..Len(sweep.checks)}

\* C26: fetchWithTimeout returns a result for every response, with the
\* response's status and ok = FALSE for 4xx and 5xx, and with text = null
\* when reading the body failed; it throws only when the network failed or
\* the timeout fired before the response
C26_FetchThrowsOnlyWithoutResponse ==
    \A f \in SweepFetches :
        /\ f[1].net = "response" =>
              /\ ~f[2].threw
              /\ f[2].status = f[1].status
              /\ f[2].ok = (f[1].status >= 200 /\ f[1].status <= 299)
              /\ f[1].body = "error" => f[2].text = "null"
        /\ f[2].threw => f[1].net \in {"error", "timeout"}

\* a 404 response whose body could not be read was returned with text null,
\* and a 501 response was returned too
C26_Witness ==
    \E f, g \in SweepFetches :
        /\ f[1].net = "response" /\ f[1].status = 404 /\ f[1].body = "error"
        /\ ~f[2].threw /\ ~f[2].ok /\ f[2].status = 404 /\ f[2].text = "null"
        /\ g[1].status = 501 /\ ~g[2].threw /\ ~g[2].ok

\* C24: a run-audit request that passed the method, rate, body and URL
\* checks gets its response, also when operations outside the process
\* never answer
C24_AdmittedRequestGetsResponse == (pc \in {"dns", "seo", "perf"}) ~> (pc = "done")

====
